---------------------------- MODULE Spec2Model ----------------------------
(***************************************************************************)
(* A model of the asynchronous pipeline of PhotosSorter                    *)
(* (src/src/async_file_organizer.py): AsyncFileOrganizer with its batch    *)
(* coordinator (organize_photos_async), task builder                       *)
(* (_generate_tasks_async), worker pool (_worker), retry executor          *)
(* (_execute_file_operation), I/O semaphore, statistics counters and       *)
(* cancel_processing.                                                      *)
(*                                                                         *)
(* The coroutines run on one asyncio event loop: the code between two      *)
(* suspension points is one atomic step.  Every action below is the code   *)
(* of one coroutine from one suspension point to the next.  Wall-clock     *)
(* time is abstracted: a timeout (queue poll, batch completion) is a       *)
(* nondeterministic choice that is possible whenever the awaited event     *)
(* has not happened.                                                       *)
(***************************************************************************)
EXTENDS Integers, Sequences, FiniteSets, TLC

(* ------------------------------ bounds -------------------------------- *)
\* The largest number of supported files in the source directory.
NumFiles == 3
\* The same, for the runs checked under fairness.
NumFilesLive == 2

(* ------------------ configuration of the organizer -------------------- *)
\* AsyncFileOrganizer.__init__: self.max_workers
max_workers == 2
\* AsyncFileOrganizer.__init__: asyncio.Semaphore(max_concurrent_io)
max_concurrent_io == 1
\* AsyncFileOrganizer.__init__: self.batch_size
batch_size == 2
\* AsyncFileOrganizer.__init__: the value self.retry_attempts is configured
\* to in the runs of Spec and FairSpec.
ConfiguredRetries == 2
\* The largest self.retry_attempts of the runs of RetrySpec.
MaxRetryAttempts == 3
\* The number of calls of the collector in the runs of StatsSpec.
MaxCalls == 3
\* The number of calls on the container in the runs of DISpec, and the
\* number of registrations among them.
MaxOps == 6
MaxRegistrations == 2
\* The number of files the runs of DupSpec process.
NumNamed == 2
\* The last counter _handle_duplicate_async tries (9999 in the source).
AsyncRenameCap == 3
\* The last counter FileOrganizer._handle_duplicate tries (999 in the source).
SyncRenameCap == 2

Files == 1..NumFiles
Workers == 1..max_workers
\* The stop signal _stop_workers puts on the task queue (None in the source).
StopSignal == 0
\* The text "Max retries exceeded" returned when the retry loop runs out.
MaxRetriesExceeded == -1
\* No error (None in the source).
NoError == 0
\* The text "Unexpected error: ..." of _process_task_async's own handler.
UnexpectedError == -2

VARIABLES
    pc_main,          \* where organize_photos_async is suspended
    dir_files,        \* input: supported files the source directory holds
    file_count,       \* len(file_paths) returned by discovery
    idx,              \* index of the file the task builder is on
    batch,            \* _batch_generator's local list
    wait_n,           \* batch_size argument of _wait_for_batch_completion
    completed,        \* its local counter
    task_queue,       \* self._task_queue
    result_queue,     \* self._result_queue
    workers,          \* self._workers
    is_processing,    \* self._is_processing
    cancel_event,     \* self._cancel_event
    pool_shutdown,    \* self._thread_pool has been shut down
    permits,          \* free permits of self._io_semaphore
    wpc,              \* where each worker coroutine is suspended
    wtask,            \* the task a worker holds (0: none)
    wattempt,         \* the retry loop's variable `attempt` of each worker
    stats,            \* self.stats_collector.stats (the counters used here)
    final_stats,      \* the mapping organize_photos_async returned
    move_files,       \* self.move_files
    dry_run,          \* self.dry_run
    retry_attempts,   \* self.retry_attempts
    pc_c,             \* where cancel_processing is suspended
    enqueued,         \* history: tasks put on the task queue
    result_count,     \* history: results put on the result queue, per task
    started,          \* history: files the task builder has started on
    gen_failed,       \* history: files whose task generation raised
    cancel_at,        \* history: pc_main when cancel_processing was called
    queued_at_cancel, \* history: tasks waiting on the queue at that moment
    generated,        \* history: tasks _generate_tasks_async has yielded
    yielded,          \* history: batches _batch_generator has yielded
    submitted,        \* history: tasks in the order they were put on the queue
    wdelay,           \* history: time each worker's retry loop has slept
    fail_count,       \* history: failed ProcessingResults made
    dateless,         \* input: files no date can be extracted from
    unknown_date      \* history: files whose target_dir is the no-date folder

\* The duplicate resolvers and the folder they look in (the runs of DupSpec).
VARIABLES
    target_folder,      \* the names that exist in the target folder
    file_names,         \* input: the names of the files to process, in order
    duplicate_handling, \* the configured processing.duplicate_handling
    organizer,          \* input: "async" (AsyncFileOrganizer) or "sync"
    next_file,          \* index of the next file to find a target for
    pending,            \* tasks of the batch that is being filled
    queued,             \* tasks on the task queue or in a worker's hands
    resolved,           \* history: candidate and target of every file so far
    executed            \* history: the writes, and whether the target existed

\* Discovery and the tree it scans (the runs of ScanSpec).
VARIABLES
    tree,                 \* the entries below the source directory
    supported_extensions, \* the configured supported_extensions
    pc_scan,              \* where _discover_files_async is
    scan_stack,           \* the calls of scan_directory that are open
    files,                \* its list `files`
    discovered,           \* the list _discover_files_async returned
    run                   \* 1 in the first run of the pipeline, 2 in the second

\* The statistics collector on its own (the runs of StatsSpec).
VARIABLES
    heap,          \* the objects: stats objects and the dicts handed out
    stats_ref,     \* self.stats: the stats object of the collector
    operation_log, \* self._operation_log
    snapshot_ref,  \* the dict a caller was given last (0: none yet)
    taken,         \* history: the counters when that dict was made
    last_call,     \* history: the last call and the stats object before it
    only_logged,   \* history: only log_operation was called since the start
    calls          \* the number of calls made

\* The dependency container on its own (the runs of DISpec).
VARIABLES
    container,     \* the DIContainer: its dicts, and the history it carries
    last_resolve,  \* history: the last resolve made from outside (its key,
                   \* the container before it, what it gave)
    registrations, \* the number of register_* calls made
    ops            \* the number of calls made

dupVars == << target_folder, file_names, duplicate_handling, organizer,
              next_file, pending, queued, resolved, executed >>

pipelineVars == << pc_main, dir_files, file_count, idx, batch, wait_n, completed, task_queue,
           result_queue, workers, is_processing, cancel_event, pool_shutdown,
           permits, wpc, wtask, wattempt, stats, final_stats, move_files,
           dry_run, retry_attempts, pc_c, enqueued, result_count, started, gen_failed,
           cancel_at, queued_at_cancel, generated, yielded, submitted,
           wdelay, fail_count, dateless, unknown_date >>

scanVars == << tree, supported_extensions, pc_scan, scan_stack, files,
               discovered, run >>

statsVars == << heap, stats_ref, operation_log, snapshot_ref, taken,
                last_call, only_logged, calls >>

\* The components checked on their own.
diVars == << container, last_resolve, registrations, ops >>

libVars == << scanVars, statsVars, diVars >>

otherThanScan == << pipelineVars, dupVars, statsVars, diVars >>
otherThanStats == << pipelineVars, dupVars, scanVars, diVars >>
otherThanDI == << pipelineVars, dupVars, scanVars, statsVars >>

vars == << pipelineVars, dupVars, libVars >>

\* The history of the task builder and of the coordinator's submissions.
builderHist == << generated, yielded, submitted >>
\* The history of the workers.
workerHist == << wdelay, fail_count >>
\* The dates of the files and where the builder sent them.
dateVars == << dateless, unknown_date >>

ZeroStats ==
    [processed |-> 0, moved |-> 0, copied |-> 0, errors |-> 0, no_date |-> 0]

\* The state after AsyncFileOrganizer.__init__ (lines 70-108) and the first
\* lines of organize_photos_async (121-123), apart from the inputs.
Constructed ==
    /\ pc_main = "validating"
    /\ file_count = 0
    /\ idx = 0
    /\ batch = << >>
    /\ wait_n = 0
    /\ completed = 0
    /\ task_queue = << >>
    /\ result_queue = << >>
    /\ workers = {}
    /\ is_processing = FALSE
    /\ cancel_event = FALSE
    /\ pool_shutdown = FALSE
    /\ permits = max_concurrent_io
    /\ wpc = [w \in Workers |-> "none"]
    /\ wtask = [w \in Workers |-> 0]
    /\ wattempt = [w \in Workers |-> 0]
    /\ stats = ZeroStats
    /\ final_stats = ZeroStats
    /\ pc_c = "idle"
    /\ enqueued = {}
    /\ result_count = [f \in Files |-> 0]
    /\ started = {}
    /\ gen_failed = {}
    /\ cancel_at = "none"
    /\ queued_at_cancel = {}
    /\ generated = << >>
    /\ yielded = << >>
    /\ submitted = << >>
    /\ wdelay = [w \in Workers |-> 0]
    /\ fail_count = 0
    /\ unknown_date = {}

\* No duplicate is resolved in the runs of the pipeline.
DupIdle ==
    /\ target_folder = {}
    /\ file_names = << >>
    /\ duplicate_handling = "rename"
    /\ organizer = "async"
    /\ next_file = 1
    /\ pending = << >>
    /\ queued = << >>
    /\ resolved = << >>
    /\ executed = << >>

\* No tree is scanned in the runs of the pipeline: discovery hands over
\* dir_files files.
ScanIdle ==
    /\ tree = {}
    /\ supported_extensions = {}
    /\ pc_scan = "idle"
    /\ scan_stack = << >>
    /\ files = << >>
    /\ discovered = << >>
    /\ run = 0

\* No call of a collector of its own in the runs of the pipeline (whose
\* collector is the variable stats).
StatsIdle ==
    /\ heap = << >>
    /\ stats_ref = 0
    /\ operation_log = << >>
    /\ snapshot_ref = 0
    /\ taken = << >>
    /\ last_call = << >>
    /\ only_logged = TRUE
    /\ calls = 0

\* No container in the runs of the other components.
DIIdle ==
    /\ container = << >>
    /\ last_resolve = << >>
    /\ registrations = 0
    /\ ops = 0

LibIdle == ScanIdle /\ StatsIdle /\ DIIdle

\* The pipeline at rest, in the runs of its components.
PipelineIdle ==
    /\ Constructed
    /\ dir_files = 0
    /\ move_files = FALSE
    /\ dry_run = FALSE
    /\ retry_attempts = ConfiguredRetries
    /\ dateless = {}

Init ==
    /\ Constructed
    /\ DupIdle
    /\ LibIdle
    /\ dir_files \in 0..NumFiles
    /\ move_files \in BOOLEAN
    /\ dry_run \in BOOLEAN
    /\ retry_attempts = ConfiguredRetries
    /\ dateless = {}

\* The runs checked under fairness: copy mode, fewer files.
InitLive ==
    /\ Constructed
    /\ DupIdle
    /\ LibIdle
    /\ dir_files \in 0..NumFilesLive
    /\ move_files = FALSE
    /\ dry_run \in BOOLEAN
    /\ retry_attempts = ConfiguredRetries
    /\ dateless = {}

\* The runs of one full batch and one more file, checked under fairness.
InitTwoBatches ==
    /\ Constructed
    /\ DupIdle
    /\ LibIdle
    /\ dir_files = batch_size + 1
    /\ move_files = FALSE
    /\ dry_run \in BOOLEAN
    /\ retry_attempts = ConfiguredRetries
    /\ dateless = {}

\* The runs that vary the number of attempts: copy mode, fewer files, and
\* every self.retry_attempts from none to MaxRetryAttempts.
InitRetry ==
    /\ Constructed
    /\ DupIdle
    /\ LibIdle
    /\ dir_files \in 1..NumFilesLive
    /\ move_files = FALSE
    /\ dry_run \in BOOLEAN
    /\ retry_attempts \in 0..MaxRetryAttempts
    /\ dateless = {}

\* The runs in copy mode over files of which any may carry no date.
InitNoDate ==
    /\ Constructed
    /\ DupIdle
    /\ LibIdle
    /\ dir_files \in 1..NumFiles
    /\ move_files = FALSE
    /\ dry_run \in BOOLEAN
    /\ retry_attempts = ConfiguredRetries
    /\ dateless \in SUBSET (1..dir_files)

(* ------------------- pieces of the code, as operators ------------------ *)

\* _stop_workers, lines 420-421: one stop signal per entry of self._workers,
\* put behind whatever the queue holds.
StopSignals(ws) == [i \in 1..Cardinality(ws) |-> StopSignal]

\* Mutant of StopWorkersQueue: the stop signals overtake the queued tasks.
StopWorkersQueue_Front(q, ws) == StopSignals(ws) \o q

StopWorkersQueue(q, ws) == q \o StopSignals(ws)

\* Mutant of WorkerLoopCond: the loop ends on the flag alone, with tasks
\* still on the queue.
WorkerLoopCond_FlagOnly(isp, q) == isp

\* _worker, line 438: the condition of the worker's while loop.
WorkerLoopCond(isp, q) == isp \/ q # << >>

\* Mutant of BatchFull: a batch is yielded one task late.
BatchFull_OneMore(b) == Len(b) > batch_size

\* _batch_generator, line 620.
BatchFull(b) == Len(b) >= batch_size

\* Mutant of PutAll: the batch is queued last task first.
PutAll_Reversed(q, b) == q \o [i \in 1..Len(b) |-> b[Len(b) + 1 - i]]

\* organize_photos_async, lines 156-157: the tasks of a batch are put on
\* the queue in the order of the batch.
PutAll(q, b) == q \o b

\* organize_photos_async, lines 149-150: the coordinator's check before it
\* queues a batch.
CoordinatorBreaks(cancel) == cancel

\* _generate_tasks_async, lines 281-283: the builder goes on to file j.
BuilderContinues(j, n, cancel) == j <= n /\ ~cancel

\* Mutant of WaitContinues: the wait goes on until its timeout, however
\* many results it has taken.
WaitContinues_NoCount(c, n, timed_out) == ~timed_out

\* _wait_for_batch_completion, line 638; timed_out stands for
\* (time.time() - start_time) >= timeout.
WaitContinues(c, n, timed_out) == c < n /\ ~timed_out

\* _wait_for_batch_completion, lines 643-646: after a poll timeout the wait
\* is left when the token is set, or when line 638 then finds the batch
\* timeout elapsed.
PollTimeoutLeaves(cancel, timed_out) == cancel \/ timed_out

\* Mutant of IsLastAttempt: the last attempt is taken to be one later.
IsLastAttempt_OffByOne(attempt) == attempt = retry_attempts

\* _execute_file_operation, line 553.
IsLastAttempt(attempt) == attempt = retry_attempts - 1

\* _execute_file_operation, line 532: range(self.retry_attempts).
LoopHasAttempt(attempt) == attempt < retry_attempts

\* Mutant of BackoffDelay: the exponent is counted from one.
BackoffDelay_FromOne(attempt) == 2 ^ (attempt + 1)

\* _execute_file_operation, line 557: the sleep after the failed attempt
\* with this 0-based index, in units of the base delay (0.1 s).
BackoffDelay(attempt) == 2 ^ attempt

\* Mutant of GateFree: the gate lets every worker in.
GateFree_Always(p) == TRUE

\* asyncio.Semaphore.acquire proceeds only with a free permit.
GateFree(p) == p > 0

\* _process_task_async, line 301 (the operation of every task of the run).
Operation == IF move_files THEN "move" ELSE "copy"

\* Mutant of Increment: an update is lost (the counter is written back
\* from a value read before another increment).
Increment_LostUpdate(st, counter) ==
    [st EXCEPT ![counter] = IF @ = 0 THEN 1 ELSE @]

\* StatisticsCollector.increment, statistics.py lines 69-82.
Increment(st, counter) == [st EXCEPT ![counter] = @ + 1]

\* _process_task_async, lines 488-498.
StatsOnSuccess(st, op) ==
    LET p == Increment(st, "processed")
    IN  IF op = "move" THEN Increment(p, "moved")
        ELSE IF op = "copy" THEN Increment(p, "copied")
        ELSE p

\* Mutant of StatsOnFailure: a failure is counted twice.
StatsOnFailure_Twice(st) == Increment(Increment(st, "errors"), "errors")

\* Mutant of StatsOnFailure: a failed operation is counted as processed too.
StatsOnFailure_CountsProcessed(st) ==
    Increment(Increment(st, "errors"), "processed")

StatsOnFailure(st) == Increment(st, "errors")

UpdateStats(st, success, op) ==
    IF success THEN StatsOnSuccess(st, op) ELSE StatsOnFailure(st)

(* ------------- organize_photos_async: the coordinator ------------------ *)

\* The variables organize_photos_async writes, as one record, so that the
\* code between two suspension points composes into one step.
MainState ==
    [pc |-> pc_main, idx |-> idx, batch |-> batch, n |-> wait_n,
     comp |-> completed, tq |-> task_queue, ws |-> workers,
     isp |-> is_processing, cancel |-> cancel_event, st |-> stats,
     fin |-> final_stats, enq |-> enqueued, started |-> started,
     genf |-> gen_failed, wpc |-> wpc, gen |-> generated,
     yld |-> yielded, sub |-> submitted, und |-> unknown_date]

Apply(m) ==
    /\ pc_main' = m.pc
    /\ idx' = m.idx
    /\ batch' = m.batch
    /\ wait_n' = m.n
    /\ completed' = m.comp
    /\ task_queue' = m.tq
    /\ workers' = m.ws
    /\ is_processing' = m.isp
    /\ cancel_event' = m.cancel
    /\ stats' = m.st
    /\ final_stats' = m.fin
    /\ enqueued' = m.enq
    /\ started' = m.started
    /\ gen_failed' = m.genf
    /\ wpc' = m.wpc
    /\ generated' = m.gen
    /\ yielded' = m.yld
    /\ submitted' = m.sub
    /\ unknown_date' = m.und

\* Mutant of LoopEnd: the statistics are returned without waiting for the
\* workers to finish.
LoopEnd_NoGather(m) ==
    [m EXCEPT !.isp = FALSE,
              !.tq = StopWorkersQueue(m.tq, m.ws),
              !.batch = << >>,
              !.pc = "returned",
              !.fin = m.st]

\* Lines 163-166: _stop_workers (lines 415-427), then the final statistics.
\* With no worker listed, gather() has nothing to wait for and the call
\* returns at once.
LoopEnd(m) ==
    LET s == [m EXCEPT !.isp = FALSE,
                       !.tq = StopWorkersQueue(m.tq, m.ws),
                       !.batch = << >>]
    IN  IF m.ws = {}
        THEN [s EXCEPT !.pc = "returned", !.fin = m.st]
        ELSE [s EXCEPT !.pc = "stopping"]

\* Lines 621 or 625 and 148-160: _batch_generator yields m.batch, and the
\* body of the coordinator's loop runs for it, up to the first await of
\* _wait_for_batch_completion.  Queue.put on an unbounded queue does not
\* suspend.
Dispatch(m) ==
    LET y == [m EXCEPT !.yld = Append(m.yld, m.batch)]
    IN  IF CoordinatorBreaks(y.cancel)
        THEN LoopEnd(y)
        ELSE [y EXCEPT !.tq = PutAll(m.tq, m.batch),
                       !.sub = PutAll(m.sub, m.batch),
                       !.enq = m.enq \cup {m.batch[i] : i \in 1..Len(m.batch)},
                       !.n = Len(m.batch),
                       !.comp = 0,
                       !.batch = << >>,
                       !.pc = "waiting"]

\* Lines 281-287 with 618-625: the builder's loop goes on to file j.  When
\* the list is exhausted or the token is set, the generator ends and
\* _batch_generator yields what is left (lines 624-625).  Else extraction
\* of file j begins: with the thread pool shut down, run_in_executor raises
\* at once and _extract_date_async returns None without suspending (lines
\* 334-336), so the target is the no-date folder (line 293) and the builder
\* is next suspended in _handle_duplicate_async.
BuilderNext(m, j, n) ==
    IF BuilderContinues(j, n, m.cancel)
    THEN [m EXCEPT !.idx = j,
                   !.started = m.started \cup {j},
                   !.und = IF pool_shutdown THEN m.und \cup {j} ELSE m.und,
                   !.pc = IF pool_shutdown THEN "resolving" ELSE "extracting"]
    ELSE IF m.batch # << >>
         THEN Dispatch(m)
         ELSE LoopEnd(m)

\* _start_workers, lines 403-413.
StartWorkers(m) ==
    [m EXCEPT !.isp = TRUE,
              !.cancel = FALSE,
              !.ws = Workers,
              !.wpc = [w \in Workers |-> "get"]]

\* Mutant of M_validate: the workers are started before the source path is
\* found invalid.
M_validate_StartsWorkers ==
    /\ pc_main = "validating"
    /\ \E valid \in BOOLEAN :
         IF valid
         THEN /\ pc_main' = "discovering"
              /\ UNCHANGED << pool_shutdown, workers, wpc, is_processing >>
         ELSE /\ pc_main' = "raised"
              /\ pool_shutdown' = TRUE
              /\ workers' = Workers
              /\ wpc' = [w \in Workers |-> "get"]
              /\ is_processing' = TRUE
    /\ UNCHANGED << dupVars, libVars, dateVars, workerHist, builderHist,
                    dir_files, file_count, idx, batch,
                    wait_n, completed, task_queue, result_queue, cancel_event,
                    permits, wtask, wattempt, stats, final_stats, move_files,
                    dry_run, retry_attempts, pc_c, enqueued, result_count,
                    started, gen_failed, cancel_at, queued_at_cancel >>

\* Lines 126-127 and 168-171: _validate_paths; an invalid source raises,
\* the handler runs _cleanup (no worker is listed yet, so it only shuts the
\* thread pool down) and re-raises.
M_validate ==
    /\ pc_main = "validating"
    /\ \E valid \in BOOLEAN :
         IF valid
         THEN /\ pc_main' = "discovering"
              /\ UNCHANGED pool_shutdown
         ELSE /\ pc_main' = "raised"
              /\ pool_shutdown' = TRUE
    /\ UNCHANGED << dupVars, libVars, dateVars, workerHist, builderHist,
                    dir_files, file_count, idx, batch, wait_n, completed, task_queue,
                    result_queue, workers, is_processing, cancel_event,
                    permits, wpc, wtask, wattempt, stats, final_stats,
                    move_files, dry_run, retry_attempts, pc_c, enqueued, result_count,
                    started, gen_failed, cancel_at, queued_at_cancel >>

\* Lines 131-148: discovery returns the files of the directory (sorted:
\* file i is the i-th); with none the statistics are returned at once,
\* else the workers are started and the builder begins on the first file.
M_discover ==
    /\ pc_main = "discovering"
    /\ file_count' = dir_files
    /\ IF dir_files = 0
       THEN Apply([MainState EXCEPT !.pc = "returned", !.fin = stats])
       ELSE Apply(BuilderNext(StartWorkers(MainState), 1, dir_files))
    /\ UNCHANGED << dupVars, libVars, dateless, workerHist,
                    dir_files, result_queue, pool_shutdown, permits, wtask,
                    wattempt, move_files, dry_run, retry_attempts, pc_c, result_count,
                    cancel_at, queued_at_cancel >>

\* Mutant of M_extract_done: a file without a date counts as an error.
M_extract_done_CountsError ==
    /\ pc_main = "extracting"
    /\ pc_main' = "resolving"
    /\ unknown_date' = IF idx \in dateless
                       THEN unknown_date \cup {idx}
                       ELSE unknown_date
    /\ stats' = IF idx \in dateless THEN Increment(stats, "errors") ELSE stats
    /\ UNCHANGED << dupVars, libVars, dateless, workerHist, builderHist,
                    dir_files, file_count, idx, batch, wait_n, completed, task_queue,
                    result_queue, workers, is_processing, cancel_event,
                    pool_shutdown, permits, wpc, wtask, wattempt,
                    final_stats, move_files, dry_run, retry_attempts, pc_c, enqueued,
                    result_count, started, gen_failed, cancel_at, queued_at_cancel >>

\* Lines 287-298: the thread pool hands the date back, or None for a file
\* that has none; the builder computes the target (the no-date folder for
\* None, line 293) and is next suspended in _handle_duplicate_async.
M_extract_done ==
    /\ pc_main = "extracting"
    /\ pc_main' = "resolving"
    /\ unknown_date' = IF idx \in dateless
                       THEN unknown_date \cup {idx}
                       ELSE unknown_date
    /\ UNCHANGED << dupVars, libVars, dateless, workerHist, builderHist,
                    dir_files, file_count, idx, batch, wait_n, completed, task_queue,
                    result_queue, workers, is_processing, cancel_event,
                    pool_shutdown, permits, wpc, wtask, wattempt, stats,
                    final_stats, move_files, dry_run, retry_attempts, pc_c, enqueued,
                    result_count, started, gen_failed, cancel_at, queued_at_cancel >>

\* Lines 298-313 with 618-622: the duplicate check returns and the task is
\* yielded to _batch_generator, or task generation raised and line 313
\* counts an error; then on to a full batch or to the next file.
M_resolve_done ==
    /\ pc_main = "resolving"
    /\ \E raised \in BOOLEAN :
         IF raised
         THEN Apply(BuilderNext([MainState EXCEPT
                                    !.st = Increment(stats, "errors"),
                                    !.genf = gen_failed \cup {idx}],
                                idx + 1, file_count))
         ELSE LET m == [MainState EXCEPT !.batch = Append(batch, idx),
                                         !.gen = Append(generated, idx)]
              IN  Apply(IF BatchFull(m.batch)
                        THEN Dispatch(m)
                        ELSE BuilderNext(m, idx + 1, file_count))
    /\ UNCHANGED << dupVars, libVars, dateless, workerHist,
                    dir_files, file_count, result_queue, pool_shutdown, permits, wtask,
                    wattempt, move_files, dry_run, retry_attempts, pc_c, result_count,
                    cancel_at, queued_at_cancel >>

\* Lines 638-642: a result is taken from the result queue; the wait goes on
\* or ends (all results in, or the batch timeout elapsed), and then the
\* coordinator asks for the next batch.
M_wait_get ==
    /\ pc_main = "waiting"
    /\ result_queue # << >>
    /\ result_queue' = Tail(result_queue)
    /\ \E timed_out \in BOOLEAN :
         LET m == [MainState EXCEPT !.comp = completed + 1]
         IN  Apply(IF WaitContinues(m.comp, wait_n, timed_out)
                   THEN m
                   ELSE BuilderNext(m, idx + 1, file_count))
    /\ UNCHANGED << dupVars, libVars, dateless, workerHist,
                    dir_files, file_count, pool_shutdown, permits, wtask, wattempt,
                    move_files, dry_run, retry_attempts, pc_c, result_count, cancel_at,
                    queued_at_cancel >>

\* Lines 643-649: the poll of the result queue times out.
M_wait_poll_timeout ==
    /\ pc_main = "waiting"
    /\ result_queue = << >>
    /\ \E timed_out \in BOOLEAN :
         Apply(IF PollTimeoutLeaves(cancel_event, timed_out)
               THEN BuilderNext(MainState, idx + 1, file_count)
               ELSE MainState)
    /\ UNCHANGED << dupVars, libVars, dateless, workerHist,
                    dir_files, file_count, result_queue, pool_shutdown, permits, wtask,
                    wattempt, move_files, dry_run, retry_attempts, pc_c, result_count,
                    cancel_at, queued_at_cancel >>

\* Lines 424-427 and 166: the gather of _stop_workers returns once every
\* listed worker has finished.
M_stop_done ==
    /\ pc_main = "stopping"
    /\ \A w \in workers : wpc[w] = "stopped"
    /\ pc_main' = "returned"
    /\ workers' = {}
    /\ final_stats' = stats
    /\ UNCHANGED << dupVars, libVars, dateVars, workerHist, builderHist,
                    dir_files, file_count, idx, batch, wait_n, completed, task_queue,
                    result_queue, is_processing, cancel_event, pool_shutdown,
                    permits, wpc, wtask, wattempt, stats, move_files,
                    dry_run, retry_attempts, pc_c, enqueued, result_count, started, gen_failed,
                    cancel_at, queued_at_cancel >>

Main ==
    \/ M_validate
    \/ M_discover
    \/ M_extract_done
    \/ M_resolve_done
    \/ M_wait_get
    \/ M_wait_poll_timeout
    \/ M_stop_done

(* ----------------------------- the workers ----------------------------- *)

\* A ProcessingResult, with the history of the retry loop that made it:
\* attempts started, attempts that raised, and the time slept between them.
Result(task, success, error, attempts, fails, delay) ==
    [task |-> task, success |-> success, error |-> error,
     attempts |-> attempts, fails |-> fails, delay |-> delay]

\* The message of the exception raised by the attempt with 0-based index a.
ErrorOf(a) == a + 1

\* Lines 485-506 and 448-451, then line 438: statistics, the result on the
\* result queue, and the loop condition; none of it suspends.
Publish(w, r) ==
    /\ stats' = UpdateStats(stats, r.success, Operation)
    /\ result_queue' = Append(result_queue, r)
    /\ result_count' = [result_count EXCEPT ![r.task] = @ + 1]
    /\ wtask' = [wtask EXCEPT ![w] = 0]
    /\ wattempt' = [wattempt EXCEPT ![w] = 0]
    /\ wdelay' = [wdelay EXCEPT ![w] = 0]
    /\ fail_count' = IF r.success THEN fail_count ELSE fail_count + 1
    /\ wpc' = [wpc EXCEPT ![w] = IF WorkerLoopCond(is_processing, task_queue)
                                 THEN "get" ELSE "stopped"]

\* Lines 438-447, 453-454, 474-476 and 532-534: wait_for(get) returns.
\* With an item: a stop signal ends the worker; a task starts dry-run
\* processing or the retry loop.  On an empty queue the poll times out, the
\* loop condition is read again and the worker ends when it is false.
W_get(w) ==
    /\ wpc[w] = "get"
    /\ (task_queue = << >>) => ~WorkerLoopCond(is_processing, task_queue)
    /\ IF task_queue = << >>
       THEN /\ wpc' = [wpc EXCEPT ![w] = "stopped"]
            /\ UNCHANGED << task_queue, wtask, wattempt, stats, result_queue,
                            result_count, workerHist >>
       ELSE IF Head(task_queue) = StopSignal
       THEN /\ task_queue' = Tail(task_queue)
            /\ wpc' = [wpc EXCEPT ![w] = "stopped"]
            /\ UNCHANGED << wtask, wattempt, stats, result_queue,
                            result_count, workerHist >>
       ELSE IF dry_run \/ LoopHasAttempt(0)
       THEN /\ task_queue' = Tail(task_queue)
            /\ wpc' = [wpc EXCEPT ![w] = IF dry_run THEN "dry" ELSE "acquire"]
            /\ wtask' = [wtask EXCEPT ![w] = Head(task_queue)]
            /\ wattempt' = [wattempt EXCEPT ![w] = 0]
            /\ UNCHANGED << stats, result_queue, result_count, workerHist >>
       ELSE \* line 559 with no attempt to make: the new queue is what the
            \* loop condition reads
            /\ task_queue' = Tail(task_queue)
            /\ stats' = UpdateStats(stats, FALSE, Operation)
            /\ result_queue' = Append(result_queue,
                   Result(Head(task_queue), FALSE, MaxRetriesExceeded,
                          0, 0, 0))
            /\ fail_count' = fail_count + 1
            /\ result_count' = [result_count EXCEPT
                                   ![Head(task_queue)] = @ + 1]
            /\ wpc' = [wpc EXCEPT ![w] =
                   IF WorkerLoopCond(is_processing, Tail(task_queue))
                   THEN "get" ELSE "stopped"]
            /\ UNCHANGED << wtask, wattempt, wdelay >>
    /\ UNCHANGED << dupVars, libVars, dateVars, builderHist,
                    pc_main, dir_files, file_count, idx, batch, wait_n, completed,
                    workers, is_processing, cancel_event, pool_shutdown,
                    permits, final_stats, move_files, dry_run, retry_attempts, pc_c,
                    enqueued, started, gen_failed, cancel_at, queued_at_cancel >>

\* Lines 474-480 and 508-520: the dry run's sleep ends, or an exception
\* is raised there and the handler of _process_task_async makes a failed
\* result of it.
W_dry_done(w) ==
    /\ wpc[w] = "dry"
    /\ \E unexpected \in BOOLEAN :
         Publish(w, IF unexpected
                    THEN Result(wtask[w], FALSE, UnexpectedError, 0, 0, 0)
                    ELSE Result(wtask[w], TRUE, NoError, 0, 0, 0))
    /\ UNCHANGED << dupVars, libVars, dateVars, builderHist,
                    pc_main, dir_files, file_count, idx, batch, wait_n, completed,
                    task_queue, workers, is_processing, cancel_event,
                    pool_shutdown, permits, final_stats, move_files, dry_run, retry_attempts,
                    pc_c, enqueued, started, gen_failed, cancel_at, queued_at_cancel >>

\* Line 534: the worker enters the I/O semaphore.
W_acquire(w) ==
    /\ wpc[w] = "acquire"
    /\ GateFree(permits)
    /\ permits' = permits - 1
    /\ wpc' = [wpc EXCEPT ![w] = "io"]
    /\ UNCHANGED << dupVars, libVars, dateVars, workerHist, builderHist,
                    pc_main, dir_files, file_count, idx, batch, wait_n, completed,
                    task_queue, result_queue, workers, is_processing,
                    cancel_event, pool_shutdown, wtask, wattempt, stats,
                    final_stats, move_files, dry_run, retry_attempts, pc_c, enqueued,
                    result_count, started, gen_failed, cancel_at, queued_at_cancel >>

\* Mutant of W_io_done: an attempt that raises keeps its permit.
W_io_done_HoldsOnRaise(w) ==
    /\ wpc[w] = "io"
    /\ \E outcome \in {"done", "raised", "unexpected"} :
         /\ permits' = IF outcome = "done" THEN permits + 1 ELSE permits
         /\ IF outcome = "done"
            THEN Publish(w, Result(wtask[w], TRUE, NoError,
                                   wattempt[w] + 1, wattempt[w], wdelay[w]))
            ELSE IF outcome = "unexpected"
            THEN Publish(w, Result(wtask[w], FALSE, UnexpectedError,
                                   wattempt[w] + 1, wattempt[w], wdelay[w]))
            ELSE IF IsLastAttempt(wattempt[w])
            THEN Publish(w, Result(wtask[w], FALSE, ErrorOf(wattempt[w]),
                                   wattempt[w] + 1, wattempt[w] + 1, wdelay[w]))
            ELSE /\ wpc' = [wpc EXCEPT ![w] = "backoff"]
                 /\ wdelay' = [wdelay EXCEPT
                                  ![w] = @ + BackoffDelay(wattempt[w])]
                 /\ UNCHANGED << wtask, wattempt, stats, result_queue,
                                 result_count, fail_count >>
    /\ UNCHANGED << dupVars, libVars, dateVars, builderHist,
                    pc_main, dir_files, file_count, idx, batch, wait_n, completed,
                    task_queue, workers, is_processing, cancel_event,
                    pool_shutdown, final_stats, move_files, dry_run, retry_attempts, pc_c,
                    enqueued, started, gen_failed, cancel_at, queued_at_cancel >>

\* Lines 535-557 and 508-520: the filesystem operations of one attempt
\* end, with success or with an exception; the semaphore is left either
\* way.  An exception that escapes _execute_file_operation is made a failed
\* result by the handler of _process_task_async.
W_io_done(w) ==
    /\ wpc[w] = "io"
    /\ permits' = permits + 1
    /\ \E outcome \in {"done", "raised", "unexpected"} :
         IF outcome = "done"
         THEN Publish(w, Result(wtask[w], TRUE, NoError,
                                wattempt[w] + 1, wattempt[w], wdelay[w]))
         ELSE IF outcome = "unexpected"
         THEN Publish(w, Result(wtask[w], FALSE, UnexpectedError,
                                wattempt[w] + 1, wattempt[w], wdelay[w]))
         ELSE IF IsLastAttempt(wattempt[w])
         THEN Publish(w, Result(wtask[w], FALSE, ErrorOf(wattempt[w]),
                                wattempt[w] + 1, wattempt[w] + 1, wdelay[w]))
         ELSE /\ wpc' = [wpc EXCEPT ![w] = "backoff"]
              /\ wdelay' = [wdelay EXCEPT
                               ![w] = @ + BackoffDelay(wattempt[w])]
              /\ UNCHANGED << wtask, wattempt, stats, result_queue,
                              result_count, fail_count >>
    /\ UNCHANGED << dupVars, libVars, dateVars, builderHist,
                    pc_main, dir_files, file_count, idx, batch, wait_n, completed,
                    task_queue, workers, is_processing, cancel_event,
                    pool_shutdown, final_stats, move_files, dry_run, retry_attempts, pc_c,
                    enqueued, started, gen_failed, cancel_at, queued_at_cancel >>

\* Lines 557, 532 and 559: the backoff sleep ends and the loop goes to the
\* next attempt, or runs out.
W_backoff_done(w) ==
    /\ wpc[w] = "backoff"
    /\ IF LoopHasAttempt(wattempt[w] + 1)
       THEN /\ wattempt' = [wattempt EXCEPT ![w] = @ + 1]
            /\ wpc' = [wpc EXCEPT ![w] = "acquire"]
            /\ UNCHANGED << wtask, stats, result_queue, result_count,
                            workerHist >>
       ELSE Publish(w, Result(wtask[w], FALSE, MaxRetriesExceeded,
                              wattempt[w] + 1, wattempt[w] + 1, wdelay[w]))
    /\ UNCHANGED << dupVars, libVars, dateVars, builderHist,
                    pc_main, dir_files, file_count, idx, batch, wait_n, completed,
                    task_queue, workers, is_processing, cancel_event,
                    pool_shutdown, permits, final_stats, move_files, dry_run, retry_attempts,
                    pc_c, enqueued, started, gen_failed, cancel_at, queued_at_cancel >>

Worker(w) ==
    \/ W_get(w)
    \/ W_dry_done(w)
    \/ W_acquire(w)
    \/ W_io_done(w)
    \/ W_backoff_done(w)

(* -------------------------- cancel_processing -------------------------- *)

TasksIn(q) == {q[i] : i \in 1..Len(q)} \ {StopSignal}

\* Lines 672-684: the token is set; _cleanup stops the workers when any is
\* listed (and is then suspended in the gather of _stop_workers), and shuts
\* the thread pool down.
C_cancel ==
    /\ pc_c = "idle"
    /\ pc_main \notin {"returned", "raised"}
    /\ cancel_event' = TRUE
    /\ cancel_at' = pc_main
    /\ queued_at_cancel' = TasksIn(task_queue)
    /\ IF workers # {}
       THEN /\ is_processing' = FALSE
            /\ task_queue' = StopWorkersQueue(task_queue, workers)
            /\ pc_c' = "gathering"
            /\ UNCHANGED pool_shutdown
       ELSE /\ pool_shutdown' = TRUE
            /\ pc_c' = "done"
            /\ UNCHANGED << is_processing, task_queue >>
    /\ UNCHANGED << dupVars, libVars, dateVars, workerHist, builderHist,
                    pc_main, dir_files, file_count, idx, batch, wait_n, completed,
                    result_queue, workers, permits, wpc, wtask, wattempt,
                    stats, final_stats, move_files, dry_run, retry_attempts, enqueued,
                    result_count, started, gen_failed >>

\* Lines 424-425 and 683-684: the gather returns, the list is cleared and
\* the thread pool is shut down.
C_gather_done ==
    /\ pc_c = "gathering"
    /\ \A w \in Workers : wpc[w] = "stopped"
    /\ workers' = {}
    /\ pool_shutdown' = TRUE
    /\ pc_c' = "done"
    /\ UNCHANGED << dupVars, libVars, dateVars, workerHist, builderHist,
                    pc_main, dir_files, file_count, idx, batch, wait_n, completed,
                    task_queue, result_queue, is_processing, cancel_event,
                    permits, wpc, wtask, wattempt, stats, final_stats,
                    move_files, dry_run, retry_attempts, enqueued, result_count, started, gen_failed,
                    cancel_at, queued_at_cancel >>

Cancel ==
    \/ C_cancel
    \/ C_gather_done

Next ==
    \/ Main
    \/ \E w \in Workers : Worker(w)
    \/ Cancel

Spec == Init /\ [][Next]_vars

\* Every step but the call of cancel_processing, which is the caller's
\* choice.
Progress ==
    \/ Main
    \/ \E w \in Workers : Worker(w)
    \/ C_gather_done

\* The event loop runs a coroutine whenever one is ready, every operation
\* of a worker ends, and time passes (a pending timeout fires unless the
\* awaited event comes first).
Fairness == WF_vars(Progress)

FairSpec == InitLive /\ [][Next]_vars /\ Fairness

RetrySpec == InitRetry /\ [][Next]_vars

NoDateSpec == InitNoDate /\ [][Next]_vars

FairBatchSpec == InitTwoBatches /\ [][Next]_vars /\ Fairness

(* --------------- the duplicate resolvers (rename policy) --------------- *)

\* A file name of the target folder: a base, the counters appended to it as
\* _NNN (three digits each), and the extension, which no resolver changes
\* and which is left out.
Name(base, sfx) == [base |-> base, sfx |-> sfx]

Photo == Name("photo", << >>)

\* No target (None in the source).
NoTarget == Name("", << >>)

\* Lines 390 (async) and 682 (sync): f"{base}_{counter:03d}{suffix}".
WithCounter(name, counter) == [name EXCEPT !.sfx = Append(@, counter)]

\* file_organizer.py, lines 668-676: re.search(r'_(\d{3})$', full_name), and
\* the name up to the match when there is one.
StripCounter(name) ==
    IF name.sfx # << >>
    THEN [name EXCEPT !.sfx = SubSeq(@, 1, Len(@) - 1)]
    ELSE name

\* The names of the files to process and of the files the target folder
\* may hold at the start.
FolderNames == {Photo} \cup {WithCounter(Photo, c) : c \in 1..AsyncRenameCap}

\* Mutant of NextCounter: every other counter is tried.
NextCounter_Two(counter) == counter + 2

\* Lines 394 (async) and 686 (sync): counter += 1.
NextCounter(counter) == counter + 1

\* _handle_duplicate_async, lines 389-399: the loop of the rename policy.
RECURSIVE RenameAsync(_, _, _)
RenameAsync(folder, target_path, counter) ==
    LET new_path == WithCounter(target_path, counter)
    IN  IF new_path \notin folder
        THEN new_path
        ELSE IF NextCounter(counter) > AsyncRenameCap
        THEN target_path
        ELSE RenameAsync(folder, target_path, NextCounter(counter))

\* _handle_duplicate_async, lines 363-401.
handle_duplicate_async(folder, target_path, policy) ==
    IF target_path \notin folder THEN target_path
    ELSE IF policy = "skip" THEN target_path
    ELSE IF policy = "overwrite" THEN target_path
    ELSE IF policy = "rename" THEN RenameAsync(folder, target_path, 1)
    ELSE target_path

\* FileOrganizer._handle_duplicate, lines 680-690: the loop of the rename
\* policy.
RECURSIVE RenameSync(_, _, _)
RenameSync(folder, base_name, counter) ==
    LET new_target == WithCounter(base_name, counter)
    IN  IF new_target \notin folder
        THEN new_target
        ELSE IF NextCounter(counter) > SyncRenameCap
        THEN NoTarget
        ELSE RenameSync(folder, base_name, NextCounter(counter))

\* FileOrganizer._handle_duplicate, lines 639-692 (called for a target that
\* exists).
handle_duplicate(folder, target_file, policy) ==
    IF policy = "skip" THEN NoTarget
    ELSE IF policy = "overwrite" THEN target_file
    ELSE IF policy = "rename"
    THEN RenameSync(folder, StripCounter(target_file), 1)
    ELSE target_file

\* A FileTask, as far as its target goes: the candidate target_dir / name
\* and the target the resolver returned.
Task(cand, target) == [cand |-> cand, target |-> target]

\* A write to the target folder, and whether a file of that name was there.
Write(target, folder) == [target |-> target, existed |-> target \in folder]

\* The files are all of one date (one target folder), come from source
\* folders outside it, and their names are drawn from FolderNames, equal
\* names included (files of different source folders).
InitDup ==
    /\ PipelineIdle
    /\ LibIdle
    /\ target_folder \in SUBSET FolderNames
    /\ file_names \in [1..NumNamed -> FolderNames]
    /\ duplicate_handling \in {"rename", "skip", "overwrite"}
    /\ organizer \in {"async", "sync"}
    /\ next_file = 1
    /\ pending = << >>
    /\ queued = << >>
    /\ resolved = << >>
    /\ executed = << >>

\* _generate_tasks_async, lines 295-309, with _batch_generator and lines
\* 156-157: the builder finds the target of the next file and yields its
\* task; a full batch, or the last one, is put on the task queue.
D_resolve ==
    /\ organizer = "async"
    /\ next_file <= Len(file_names)
    /\ LET cand == file_names[next_file]
           t == Task(cand, handle_duplicate_async(target_folder, cand,
                                                  duplicate_handling))
           b == Append(pending, t)
           flush == BatchFull(b) \/ next_file = Len(file_names)
       IN  /\ resolved' = Append(resolved, t)
           /\ pending' = IF flush THEN << >> ELSE b
           /\ queued' = IF flush THEN PutAll(queued, b) ELSE queued
    /\ next_file' = next_file + 1
    /\ UNCHANGED << target_folder, file_names, duplicate_handling, organizer,
                    executed, pipelineVars, libVars >>

\* _execute_file_operation, lines 535-547: a worker writes the target of a
\* task it holds (one of the first max_workers queued).  Opening the target
\* for writing, or renaming onto it, replaces a file that is there.
D_execute ==
    /\ organizer = "async"
    /\ \E i \in 1..Len(queued) :
         /\ i <= max_workers
         /\ executed' = Append(executed, Write(queued[i].target, target_folder))
         /\ target_folder' = target_folder \cup {queued[i].target}
         /\ queued' = SubSeq(queued, 1, i - 1)
                        \o SubSeq(queued, i + 1, Len(queued))
    /\ UNCHANGED << file_names, duplicate_handling, organizer, next_file,
                    pending, resolved, pipelineVars, libVars >>

\* FileOrganizer._move_or_copy_file, lines 521-563: the synchronous
\* organizer finds the target of the next file and writes it at once, or
\* skips the file when the resolver returns None.
D_move_or_copy_file ==
    /\ organizer = "sync"
    /\ next_file <= Len(file_names)
    /\ LET cand == file_names[next_file]
           target == IF cand \in target_folder
                     THEN handle_duplicate(target_folder, cand,
                                           duplicate_handling)
                     ELSE cand
       IN  /\ resolved' = Append(resolved, Task(cand, target))
           /\ IF target = NoTarget
              THEN UNCHANGED << executed, target_folder >>
              ELSE /\ executed' = Append(executed,
                                         Write(target, target_folder))
                   /\ target_folder' = target_folder \cup {target}
    /\ next_file' = next_file + 1
    /\ UNCHANGED << file_names, duplicate_handling, organizer, pending,
                    queued, pipelineVars, libVars >>

NextDup ==
    \/ D_resolve
    \/ D_execute
    \/ D_move_or_copy_file

DupSpec == InitDup /\ [][NextDup]_vars

(* ------------------------------ discovery ------------------------------ *)

\* The code points of the characters the names of the runs of ScanSpec are
\* written in (str and Path compare by code point).
Code ==
    ("-" :> 45) @@ ("." :> 46) @@ ("0" :> 48) @@ ("1" :> 49) @@
    ("2" :> 50) @@ ("4" :> 52) @@ ("5" :> 53) @@ ("D" :> 68) @@
    ("G" :> 71) @@ ("J" :> 74) @@ ("P" :> 80) @@ ("U" :> 85) @@
    ("_" :> 95) @@ ("a" :> 97) @@ ("b" :> 98) @@ ("c" :> 99) @@
    ("d" :> 100) @@ ("e" :> 101) @@ ("g" :> 103) @@ ("i" :> 105) @@
    ("j" :> 106) @@ ("k" :> 107) @@ ("n" :> 110) @@ ("o" :> 111) @@
    ("p" :> 112) @@ ("s" :> 115) @@ ("t" :> 116) @@ ("w" :> 119) @@
    ("x" :> 120)

\* str.lower(), one character: the upper-case letters are 32 code points
\* below their lower-case forms.
LowerChar(ch) ==
    IF Code[ch] >= 65 /\ Code[ch] <= 90
    THEN CHOOSE l \in DOMAIN Code : Code[l] = Code[ch] + 32
    ELSE ch

\* str.lower() (lines 216 and 227).
Lower(str) == [i \in 1..Len(str) |-> LowerChar(str[i])]

\* Path.suffix (line 227): the name from its last dot on, unless that dot
\* is the first or the last character, and the empty string otherwise.
Suffix(name) ==
    LET dots == {i \in 1..Len(name) : name[i] = "."}
    IN  IF dots = {} THEN << >>
        ELSE LET i == CHOOSE d \in dots : \A e \in dots : e <= d
             IN  IF 1 < i /\ i < Len(name)
                 THEN SubSeq(name, i, Len(name))
                 ELSE << >>

\* Line 227 with 215-217: the test of a file's extension.
IsSupported(name, extensions) ==
    Lower(Suffix(name)) \in {Lower(ext) : ext \in extensions}

\* _is_organized_directory, lines 255-261: date_patterns, "d" for \d.
date_patterns ==
    << << "d", "d", "d", "d" >>,
       << "d", "d", "d", "d", "-", "d", "d" >>,
       << "d", "d", "d", "d", "-", "d", "d", "-", "d", "d" >>,
       << "d", "d" >>,
       << "d", "d", "-", "d", "d" >> >>

\* re.match(pattern, dir_name) for a pattern ^...$ of date_patterns and a
\* name that does not end in a newline.
Match(pattern, dir_name) ==
    /\ Len(dir_name) = Len(pattern)
    /\ \A i \in 1..Len(pattern) :
         IF pattern[i] = "d"
         THEN Code[dir_name[i]] >= 48 /\ Code[dir_name[i]] <= 57
         ELSE dir_name[i] = pattern[i]

\* Mutant of is_organized_directory: only the year pattern is tried.
is_organized_directory_YearOnly(dir_name) ==
    Match(date_patterns[1], dir_name)

\* _is_organized_directory, lines 242-268.
is_organized_directory(dir_name) ==
    \E k \in 1..Len(date_patterns) : Match(date_patterns[k], dir_name)

\* str.__lt__: the first differing character decides, and a proper prefix
\* is the smaller.
StrLess(a, b) ==
    \E k \in 1..(Len(a) + 1) :
      /\ k <= Len(b)
      /\ \A i \in 1..(k - 1) : a[i] = b[i]
      /\ (k <= Len(a) => Code[a[k]] < Code[b[k]])

\* Path.__lt__ (line 239): the parts are compared as a list of str.
PathLess(p, q) ==
    \E k \in 1..(Len(p) + 1) :
      /\ k <= Len(q)
      /\ \A i \in 1..(k - 1) : p[i] = q[i]
      /\ (k <= Len(p) => StrLess(p[k], q[k]))

\* One step of the sort: path put before the first element that is larger.
RECURSIVE Insert(_, _)
Insert(path, sorted) ==
    IF sorted = << >> THEN << path >>
    ELSE IF PathLess(path, Head(sorted)) THEN << path >> \o sorted
    ELSE << Head(sorted) >> \o Insert(path, Tail(sorted))

\* Mutant of Sort: the list is returned as scandir filled it.
Sort_Unsorted(list) == list

\* files.sort(), line 239.
RECURSIVE Sort(_)
Sort(list) ==
    IF list = << >> THEN << >>
    ELSE Insert(list[Len(list)], Sort(SubSeq(list, 1, Len(list) - 1)))

\* A directory tree: its entries, each with its path below the root (the
\* names from the root down; the root's own path is empty).
Entry(path, kind, readable) ==
    [path |-> path, kind |-> kind, readable |-> readable]

\* The names of the directories and of the files of the trees scanned.
DirNames ==
    { << "2", "0", "2", "4" >>,
      << "2", "0", "2", "4", "-", "0", "1" >>,
      << "2", "0", "2", "4", "-", "0", "1", "-", "1", "5" >>,
      << "0", "1" >>,
      << "0", "1", "-", "1", "5" >>,
      << "2", "0", "2", "4", "-", "1" >>,
      << "2", "0", "2", "4", "0" >>,
      << "p", "i", "c", "s" >> }

FileNames ==
    { << "a", ".", "j", "p", "g" >>,
      << "b", ".", "J", "P", "G" >>,
      << "c", ".", "t", "x", "t" >>,
      << ".", "j", "p", "g" >> }

\* The configured lists of supported extensions.
ExtensionLists ==
    { {<< ".", "j", "p", "g" >>},
      {<< ".", "J", "P", "G" >>},
      {<< ".", "j", "p", "g" >>, << ".", "t", "x", "t" >>},
      {} }

\* What a slot of the tree below parent may hold: nothing, or one entry.
Slot(parent, kind, names) ==
    {{}} \cup {{Entry(Append(parent, n), kind, TRUE)} : n \in names}

\* The path of the directory a slot holds.
PathOf(slot) == (CHOOSE e \in slot : TRUE).path

\* The names of the entries below the first level.
Named ==
    [a_jpg |-> << "a", ".", "j", "p", "g" >>,
     c_txt |-> << "c", ".", "t", "x", "t" >>,
     d_jpg |-> << "d", ".", "j", "p", "g" >>,
     y2024 |-> << "2", "0", "2", "4" >>,
     pics |-> << "p", "i", "c", "s" >>]

\* The trees scanned: a root that opens or not; below it up to two files
\* and a directory, which opens or not; in the directory a file and a
\* directory; in that one, a file.
IsTree(t) ==
    \E r \in BOOLEAN,
       a \in Slot(<< >>, "dir", DirNames)
              \cup {{Entry(<< Named.pics >>, "dir", FALSE)}},
       b \in Slot(<< >>, "file", FileNames),
       b2 \in Slot(<< >>, "file", {Named.d_jpg}) :
      \E c \in (IF a = {} THEN {{}}
                ELSE Slot(PathOf(a), "file", {Named.a_jpg, Named.c_txt})),
         c2 \in (IF a = {} THEN {{}}
                 ELSE Slot(PathOf(a), "dir", {Named.y2024, Named.pics})) :
        \E d \in (IF c2 = {} THEN {{}}
                  ELSE Slot(PathOf(c2), "file", {Named.a_jpg})) :
          t = {Entry(<< >>, "dir", r)} \cup a \cup b \cup b2 \cup c \cup c2 \cup d

\* The entries scandir lists for a directory.
Children(t, dir_path) ==
    {e \in t : /\ Len(e.path) = Len(dir_path) + 1
               /\ SubSeq(e.path, 1, Len(dir_path)) = dir_path}

\* Lines 223-224 and 233-234: scan_directory opens dir_path; when that
\* raises, the handler logs it and the call has no entry to go through.
Frame(t, dir_path) ==
    [dir |-> dir_path,
     todo |-> IF \E e \in t : e.path = dir_path /\ e.kind = "dir" /\ e.readable
              THEN Children(t, dir_path)
              ELSE {}]

Last(seq) == seq[Len(seq)]

\* Lines 225-232: one entry of the directory being scanned.
\* A supported file is appended to files; a directory that does not look
\* organized is scanned in turn.
ScanEntry(t, extensions, entry, stack, list) ==
    LET top == stack[Len(stack)]
        rest == [stack EXCEPT ![Len(stack)].todo = top.todo \ {entry}]
    IN  IF entry.kind = "file"
        THEN [stack |-> rest,
              files |-> IF IsSupported(Last(entry.path), extensions)
                        THEN Append(list, entry.path)
                        ELSE list]
        ELSE [stack |-> IF is_organized_directory(Last(entry.path))
                        THEN rest
                        ELSE Append(rest, Frame(t, entry.path)),
              files |-> list]

\* The date of the dated files of the runs, and the configured formats.
FileDate == [year |-> 2024, month |-> 1, day |-> 15]

DateFormats == {"YYYY/MM/DD", "YYYY/MM", "YYYY-MM-DD", "YYYY-MM", "DD.MM.YYYY"}

\* f"{n:0{width}d}" (lines 352-361).
Padded(n, width) ==
    [i \in 1..width |->
        CHOOSE ch \in DOMAIN Code :
            Code[ch] = 48 + ((n \div (10 ^ (width - i))) % 10)]

\* _get_target_directory_for_date, lines 338-361, below base_dir.
get_target_directory_for_date(date, format) ==
    LET y == Padded(date.year, 4)
        m == Padded(date.month, 2)
        d == Padded(date.day, 2)
        dash == << "-" >>
    IN  IF format = "YYYY/MM/DD" THEN << y, m, d >>
        ELSE IF format = "YYYY/MM" THEN << y, m >>
        ELSE IF format = "YYYY-MM-DD" THEN << y \o dash \o m \o dash \o d >>
        ELSE IF format = "YYYY-MM" THEN << y \o dash \o m >>
        ELSE << y, m, d >>

\* The default of fallback.no_date_folder (line 293).
no_date_folder ==
    << "U", "n", "k", "n", "o", "w", "n", "_", "D", "a", "t", "e" >>

\* Lines 290-295: the target of a file, below target_base.
TargetPath(path, dated, format) ==
    LET target_dir == IF dated
                      THEN get_target_directory_for_date(FileDate, format)
                      ELSE << no_date_folder >>
    IN  Append(target_dir, Last(path))

\* The directories os.makedirs(target_path.parent, exist_ok=True) leaves in
\* place (line 536), the root apart.
Parents(path) == {SubSeq(path, 1, k) : k \in 1..(Len(path) - 1)}

Range(seq) == {seq[i] : i \in 1..Len(seq)}

\* The state before _discover_files_async is called: a tree, the
\* configured extensions, and the first run about to scan.
InitScan ==
    /\ PipelineIdle
    /\ DupIdle
    /\ StatsIdle
    /\ DIIdle
    /\ IsTree(tree)
    /\ supported_extensions \in ExtensionLists
    /\ pc_scan = "start"
    /\ scan_stack = << >>
    /\ files = << >>
    /\ discovered = << >>
    /\ run = 1

\* Lines 215-224: _discover_files_async begins to scan the root.
S_start ==
    /\ pc_scan = "start"
    /\ scan_stack' = << Frame(tree, << >>) >>
    /\ files' = << >>
    /\ pc_scan' = "scanning"
    /\ UNCHANGED << tree, supported_extensions, discovered, run,
                    otherThanScan >>

\* Lines 224-232: scandir hands out the next entry, in no known order.
S_entry ==
    /\ pc_scan = "scanning"
    /\ \E entry \in Last(scan_stack).todo :
         LET r == ScanEntry(tree, supported_extensions, entry,
                            scan_stack, files)
         IN  /\ scan_stack' = r.stack
             /\ files' = r.files
    /\ UNCHANGED << tree, supported_extensions, pc_scan, discovered, run,
                    otherThanScan >>

\* Lines 224 and 236-240: a directory is exhausted and its scan_directory
\* returns; when it is the root's, the list is sorted and returned.
S_return ==
    /\ pc_scan = "scanning"
    /\ Last(scan_stack).todo = {}
    /\ scan_stack' = SubSeq(scan_stack, 1, Len(scan_stack) - 1)
    /\ IF Len(scan_stack) = 1
       THEN /\ files' = Sort(files)
            /\ discovered' = Sort(files)
            /\ pc_scan' = "returned"
       ELSE UNCHANGED << files, discovered, pc_scan >>
    /\ UNCHANGED << tree, supported_extensions, run, otherThanScan >>

\* organize_photos_async in move mode with the source as target, every
\* operation succeeding (lines 290-295, 536 and 569): each discovered file
\* is moved to the folder of its date, or to the no-date folder; no two
\* files have the same target and no target exists.  A second run follows.
S_organize ==
    /\ pc_scan = "returned"
    /\ run = 1
    /\ \E format \in DateFormats, dated \in SUBSET Range(discovered) :
         LET sources == Range(discovered)
             targets == {TargetPath(p, p \in dated, format) : p \in sources}
             made == UNION {Parents(t) : t \in targets}
         IN  /\ Cardinality(targets) = Cardinality(sources)
             /\ \A e \in tree : e.path \notin targets
             /\ tree' = {e \in tree : e.path \notin sources}
                          \cup {Entry(t, "file", TRUE) : t \in targets}
                          \cup {Entry(d, "dir", TRUE) :
                                  d \in made \ {e.path : e \in tree}}
    /\ run' = 2
    /\ pc_scan' = "start"
    /\ UNCHANGED << supported_extensions, scan_stack, files, discovered,
                    otherThanScan >>

NextScan ==
    \/ S_start
    \/ S_entry
    \/ S_return
    \/ S_organize

ScanSpec == InitScan /\ [][NextScan]_vars

(* ----------------------- the statistics collector ---------------------- *)

\* The counters of ProcessingStats that the runs of StatsSpec use (lines
\* 19-33; the other ten are handled alike), and all its attributes.
Counters == {"processed", "moved", "copied", "errors", "mpg_merged"}

\* The values that are not numbers: a datetime (datetime.now() of line 39)
\* and None (line 35).  The numbers of the runs are 0 or more.
ADateTime == -1
NoTime == -2

\* ProcessingStats(), lines 16-39: the counters at 0, start_time set by
\* __post_init__, end_time None.
ProcessingStats ==
    [a \in Counters \cup {"start_time", "end_time"} |->
        IF a \in Counters THEN 0
        ELSE IF a = "start_time" THEN ADateTime ELSE NoTime]

\* The names passed to increment and set_counter, the amounts and values,
\* and the operation types and messages passed to log_operation.
CounterNames == {"processed", "errors", "start_time", "unknown"}
Amounts == {1, 2}
OperationTypes == {"move", "copy", "merge", "delete"}
ErrorMessages == {"Test error", "Other error"}

\* StatisticsCollector.increment, lines 69-82, on the stats object st:
\* the object after the call, and whether the call raised (current_value +
\* amount raises TypeError for a value that is not a number).
increment(st, counter, amount) ==
    IF counter \in DOMAIN st
    THEN IF st[counter] \notin {ADateTime, NoTime}
         THEN [stats |-> [st EXCEPT ![counter] = @ + amount],
               raised |-> FALSE]
         ELSE [stats |-> st, raised |-> TRUE]
    ELSE [stats |-> st, raised |-> FALSE]

\* StatisticsCollector.set_counter, lines 84-96.
set_counter(st, counter, value) ==
    IF counter \in DOMAIN st
    THEN [st EXCEPT ![counter] = value]
    ELSE st

\* An entry of self._operation_log (lines 109-116), the time stamp and the
\* paths apart.
Operation_(type, success, error) ==
    [type |-> type, success |-> success, error |-> error]

\* Mutant of CountOperation: only the successes are counted, and only in
\* processed.
CountOperation_ProcessedOnly(st, type, success) ==
    IF success THEN increment(st, "processed", 1).stats ELSE st

\* StatisticsCollector.log_operation, lines 119-128: the counters after an
\* operation is logged.
CountOperation(st, type, success) ==
    IF success
    THEN LET p == increment(st, "processed", 1).stats
         IN  IF type = "move" THEN increment(p, "moved", 1).stats
             ELSE IF type = "copy" THEN increment(p, "copied", 1).stats
             ELSE IF type = "merge" THEN increment(p, "mpg_merged", 1).stats
             ELSE p
    ELSE increment(st, "errors", 1).stats

\* StatisticsCollector.get_failed_operations, lines 243-250.
get_failed_operations(log) ==
    SelectSeq(log, LAMBDA op : ~op.success)

\* Mutant of get_dict: the mapping handed out is the live stats object.
get_dict_Live(objects, ref) ==
    [heap |-> objects, ref |-> ref]

\* StatisticsCollector.get_dict, lines 184-207: a new dict object holding
\* the values the counters of the stats object ref have now.
get_dict(objects, ref) ==
    [heap |-> Append(objects, [a \in Counters |-> objects[ref][a]]),
     ref |-> Len(objects) + 1]

\* A call of the collector as the claims see it: the stats object before
\* the call, and whether the call raised.
Call(op, name, amount, error, before, raised) ==
    [op |-> op, name |-> name, amount |-> amount, error |-> error,
     before |-> before, raised |-> raised]

\* StatisticsCollector() (lines 47-51): a fresh collector, and no snapshot
\* taken yet.
InitStats ==
    /\ PipelineIdle
    /\ DupIdle
    /\ ScanIdle
    /\ DIIdle
    /\ heap = << ProcessingStats >>
    /\ stats_ref = 1
    /\ operation_log = << >>
    /\ snapshot_ref = 0
    /\ taken = << >>
    /\ last_call = Call("init", "", 0, "", ProcessingStats, FALSE)
    /\ only_logged = TRUE
    /\ calls = 0

\* increment(counter, amount), lines 69-82.
K_increment ==
    /\ calls < MaxCalls
    /\ \E counter \in CounterNames, amount \in Amounts :
         LET r == increment(heap[stats_ref], counter, amount)
         IN  /\ heap' = [heap EXCEPT ![stats_ref] = r.stats]
             /\ last_call' = Call("increment", counter, amount, "",
                                  heap[stats_ref], r.raised)
    /\ only_logged' = FALSE
    /\ calls' = calls + 1
    /\ UNCHANGED << stats_ref, operation_log, snapshot_ref, taken,
                    otherThanStats >>

\* set_counter(counter, value), lines 84-96.
K_set_counter ==
    /\ calls < MaxCalls
    /\ \E counter \in CounterNames, value \in Amounts :
         /\ heap' = [heap EXCEPT
                       ![stats_ref] = set_counter(@, counter, value)]
         /\ last_call' = Call("set_counter", counter, value, "",
                              heap[stats_ref], FALSE)
    /\ only_logged' = FALSE
    /\ calls' = calls + 1
    /\ UNCHANGED << stats_ref, operation_log, snapshot_ref, taken,
                    otherThanStats >>

\* log_operation(operation_type, source, target, success, error), lines
\* 98-128.
K_log_operation ==
    /\ calls < MaxCalls
    /\ \E type \in OperationTypes, success \in BOOLEAN,
          message \in ErrorMessages :
         LET error == IF success THEN "" ELSE message
         IN  /\ operation_log' =
                   Append(operation_log, Operation_(type, success, error))
             /\ heap' = [heap EXCEPT
                           ![stats_ref] = CountOperation(@, type, success)]
             /\ last_call' = Call("log_operation", type,
                                  IF success THEN 1 ELSE 0, error,
                                  heap[stats_ref], FALSE)
    /\ calls' = calls + 1
    /\ UNCHANGED << stats_ref, snapshot_ref, taken, only_logged,
                    otherThanStats >>

\* get_dict(), lines 184-207, or _get_final_stats of the organizer
\* (async_file_organizer.py, lines 660-670), which adds its own keys to the
\* dict get_dict returned.  The caller keeps the mapping.
K_get_dict ==
    /\ calls < MaxCalls
    /\ \E final \in BOOLEAN :
         LET r == get_dict(heap, stats_ref)
         IN  /\ heap' = IF final
                        THEN [r.heap EXCEPT
                                ![r.ref] = @ @@ ("total_files" :> 0)]
                        ELSE r.heap
             /\ snapshot_ref' = r.ref
    /\ taken' = [a \in Counters |-> heap[stats_ref][a]]
    /\ last_call' = Call("get_dict", "", 0, "", heap[stats_ref], FALSE)
    /\ calls' = calls + 1
    /\ UNCHANGED << stats_ref, operation_log, only_logged, otherThanStats >>

\* The caller changes the mapping it was given (no line of the source:
\* the caller's own code).
K_change_snapshot ==
    /\ calls < MaxCalls
    /\ snapshot_ref # 0
    /\ \E counter \in {"processed", "errors"}, value \in Amounts :
         /\ heap' = [heap EXCEPT ![snapshot_ref][counter] = @ + value]
         /\ last_call' = Call("change", counter, value, "",
                              heap[stats_ref], FALSE)
    /\ calls' = calls + 1
    /\ UNCHANGED << stats_ref, operation_log, snapshot_ref, taken,
                    only_logged, otherThanStats >>

\* reset(), lines 53-57: a new stats object and a new log.
K_reset ==
    /\ calls < MaxCalls
    /\ heap' = Append(heap, ProcessingStats)
    /\ stats_ref' = Len(heap) + 1
    /\ operation_log' = << >>
    /\ only_logged' = TRUE
    /\ last_call' = Call("reset", "", 0, "", heap[stats_ref], FALSE)
    /\ calls' = calls + 1
    /\ UNCHANGED << snapshot_ref, taken, otherThanStats >>

NextStats ==
    \/ K_increment
    \/ K_set_counter
    \/ K_log_operation
    \/ K_get_dict
    \/ K_change_snapshot
    \/ K_reset

StatsSpec == InitStats /\ [][NextStats]_vars

(* ----------------------- the dependency container ------------------------
   DIContainer of utils/dependency_injection.py on its own (the runs of
   DISpec): registrations, resolves and the two clears on one container.
   An implementation is a class, a function or a ready object; a class or a
   function has at most one dependency, the key dep:
     class, dep "", :          class C: def __init__(self)
     class, dep k, required:   class C: def __init__(self, k)
     class, dep k, optional:   class C: def __init__(self, x: K = None),
                               K the type whose key is k
     function, dep "":         lambda c: C()
     function, dep k:          lambda c: C(c.resolve(k))
   ------------------------------------------------------------------------ *)

Keys == {"service_a", "service_b"}

Implementation(kind, dep, optional) ==
    [kind |-> kind, dep |-> dep, optional |-> optional]

Classes ==
    {Implementation("class", "", FALSE)} \cup
    {Implementation("class", k, o) : k \in Keys, o \in BOOLEAN}

Functions ==
    {Implementation("function", d, FALSE) : d \in Keys \cup {""}}

\* An object: id is its identity, by the implementation it came from, arg
\* the identity of the dependency it was built with (0: none), built
\* whether the container built it (false: it was handed to the container).
Instance(id, by, arg, built) ==
    [id |-> id, by |-> by, arg |-> arg, built |-> built]

NoInstance == Instance(0, Implementation("none", "", FALSE), 0, FALSE)

\* The exceptions of resolve (lines 151 and 154).
ValueErrors ==
    {"ValueError: Circular dependency detected",
     "ValueError: Service not registered"}

\* DIContainer.__init__, lines 25-33.  created counts the objects made so
\* far (the identity of the next one), returned is the history of the
\* identities each key's resolves returned since the key was registered or
\* the cache was cleared, scope_from is how many of them were returned
\* before the last clear_scope, and latest is what the most recent
\* registration of each key registered.
DIContainer ==
    [factories |-> << >>, singletons |-> << >>, scoped |-> << >>,
     lifetimes |-> << >>, resolving |-> {}, created |-> 0,
     returned |-> [k \in Keys |-> << >>],
     scope_from |-> [k \in Keys |-> 0],
     latest |-> [k \in Keys |->
                   [by |-> Implementation("none", "", FALSE), id |-> 0]]]

\* What a call gives: the container after it, and the instance returned or
\* the exception raised.
Outcome(c, instance, raised) ==
    [c |-> c, instance |-> instance, raised |-> raised]

\* cls(**constructor_args) of line 256, or the body of a factory function.
Construct(c, by, arg) ==
    Outcome([c EXCEPT !.created = @ + 1],
            Instance(c.created + 1, by, arg, TRUE), "")

\* A return of resolve (lines 160, 164, 170, 174, 178).
Return(c, key, instance) ==
    Outcome([c EXCEPT !.returned[key] = Append(@, instance.id)],
            instance, "")

RECURSIVE resolve(_, _)
RECURSIVE create_instance(_, _)

\* DIContainer._create_with_injection, lines 209-256, for a class of at
\* most one parameter: the parameter is resolved (by annotation, lines
\* 234-240, when it has a default; by name, lines 247-250, when it has
\* none); a ValueError of that resolve is swallowed, and then the class is
\* called without the argument, which raises TypeError when the parameter
\* has no default.
create_with_injection(c, cls) ==
    IF cls.dep = ""
    THEN Construct(c, cls, 0)
    ELSE LET r == resolve(c, cls.dep)
         IN  IF r.raised = ""
             THEN Construct(r.c, cls, r.instance.id)
             ELSE IF r.raised \in ValueErrors
                  THEN IF cls.optional
                       THEN Construct(r.c, cls, 0)
                       ELSE Outcome(r.c, NoInstance, "TypeError")
                  ELSE Outcome(r.c, NoInstance, r.raised)

\* DIContainer._create_instance, lines 181-207.
create_instance(c, key) ==
    LET adding == [c EXCEPT !.resolving = @ \cup {key}]
        r == IF key \notin DOMAIN adding.factories
             THEN Outcome(adding, NoInstance, "KeyError")
             ELSE LET factory == adding.factories[key]
                  IN  IF factory.kind = "class"
                      THEN create_with_injection(adding, factory)
                      ELSE IF factory.dep = ""
                           THEN Construct(adding, factory, 0)
                           ELSE LET d == resolve(adding, factory.dep)
                                IN  IF d.raised = ""
                                    THEN Construct(d.c, factory,
                                                   d.instance.id)
                                    ELSE Outcome(d.c, NoInstance, d.raised)
    IN  [r EXCEPT !.c.resolving = @ \ {key}]

\* Mutant of resolve: a singleton is built at every resolve and never
\* kept.
resolve_Uncached(c, key) ==
    IF key \in c.resolving
    THEN Outcome(c, NoInstance, "ValueError: Circular dependency detected")
    ELSE IF key \notin DOMAIN c.lifetimes
    THEN Outcome(c, NoInstance, "ValueError: Service not registered")
    ELSE LET r == create_instance(c, key)
         IN  IF r.raised # "" THEN r ELSE Return(r.c, key, r.instance)

\* DIContainer.resolve, lines 136-179.
resolve(c, key) ==
    IF key \in c.resolving
    THEN Outcome(c, NoInstance, "ValueError: Circular dependency detected")
    ELSE IF key \notin DOMAIN c.lifetimes
    THEN Outcome(c, NoInstance, "ValueError: Service not registered")
    ELSE IF c.lifetimes[key] = "singleton"
    THEN IF key \in DOMAIN c.singletons
         THEN Return(c, key, c.singletons[key])
         ELSE LET r == create_instance(c, key)
              IN  IF r.raised # ""
                  THEN r
                  ELSE Return([r.c EXCEPT
                                 !.singletons = (key :> r.instance) @@ @],
                              key, r.instance)
    ELSE IF c.lifetimes[key] = "scoped"
    THEN IF key \in DOMAIN c.scoped
         THEN Return(c, key, c.scoped[key])
         ELSE LET r == create_instance(c, key)
              IN  IF r.raised # ""
                  THEN r
                  ELSE Return([r.c EXCEPT
                                 !.scoped = (key :> r.instance) @@ @],
                              key, r.instance)
    ELSE LET r == create_instance(c, key)
         IN  IF r.raised # "" THEN r ELSE Return(r.c, key, r.instance)

\* DIContainer.is_registered, lines 280-291.
is_registered(c, key) == key \in DOMAIN c.lifetimes

\* DIContainer(), lines 25-33.
InitDI ==
    /\ PipelineIdle
    /\ DupIdle
    /\ ScanIdle
    /\ StatsIdle
    /\ container = DIContainer
    /\ last_resolve = [key |-> "", before |-> DIContainer,
                       instance |-> NoInstance, raised |-> ""]
    /\ registrations = 0
    /\ ops = 0

\* A registration of key: the lifetime is set, the history of the key
\* starts again, and what was registered is remembered: the implementation
\* and, for a function or an object kept as the instance, its identity.
Registered(c, key, lifetime, implementation, id) ==
    [c EXCEPT !.lifetimes = (key :> lifetime) @@ @,
              !.returned[key] = << >>,
              !.scope_from[key] = 0,
              !.latest[key] = [by |-> implementation, id |-> id]]

\* register_singleton(interface, implementation), lines 35-55: a class goes
\* to the factories, anything else (here a function; a ready object is
\* registered by R_register_instance, with the same effect) is kept as the
\* instance.
R_register_singleton ==
    /\ ops < MaxOps
    /\ registrations < MaxRegistrations
    /\ \E key \in Keys, implementation \in Classes \cup Functions :
         container' =
             IF implementation.kind = "class"
             THEN Registered([container EXCEPT
                       !.factories = (key :> implementation) @@ @],
                     key, "singleton", implementation, 0)
             ELSE Registered([container EXCEPT
                       !.singletons =
                           (key :> Instance(container.created + 1,
                                            implementation, 0, FALSE)) @@ @,
                       !.created = @ + 1],
                     key, "singleton", implementation,
                     container.created + 1)
    /\ registrations' = registrations + 1
    /\ ops' = ops + 1
    /\ UNCHANGED << last_resolve, otherThanDI >>

\* register_transient, register_scoped and register_factory, lines 57-106:
\* the implementation goes to the factories under the lifetime of the
\* method ('transient', 'scoped', 'factory').
R_register_factory ==
    /\ ops < MaxOps
    /\ registrations < MaxRegistrations
    /\ \E key \in Keys, implementation \in Classes \cup Functions,
          lifetime \in {"transient", "scoped", "factory"} :
         /\ lifetime = "factory" => implementation \in Functions
         /\ container' =
               Registered([container EXCEPT
                     !.factories = (key :> implementation) @@ @],
                   key, lifetime, implementation, 0)
    /\ registrations' = registrations + 1
    /\ ops' = ops + 1
    /\ UNCHANGED << last_resolve, otherThanDI >>

\* register_instance(interface, instance), lines 108-123.
R_register_instance ==
    /\ ops < MaxOps
    /\ registrations < MaxRegistrations
    /\ \E key \in Keys :
         container' =
             Registered([container EXCEPT
                   !.singletons =
                       (key :> Instance(container.created + 1,
                                  Implementation("object", "", FALSE),
                                  0, FALSE)) @@ @,
                   !.created = @ + 1],
                 key, "singleton", Implementation("object", "", FALSE),
                 container.created + 1)
    /\ registrations' = registrations + 1
    /\ ops' = ops + 1
    /\ UNCHANGED << last_resolve, otherThanDI >>

\* resolve(interface) called from outside, lines 136-179.
R_resolve ==
    /\ ops < MaxOps
    /\ \E key \in Keys :
         LET r == resolve(container, key)
         IN  /\ container' = r.c
             /\ last_resolve' = [key |-> key, before |-> container,
                                 instance |-> r.instance,
                                 raised |-> r.raised]
    /\ ops' = ops + 1
    /\ UNCHANGED << registrations, otherThanDI >>

\* clear_cache(), lines 125-134.
R_clear_cache ==
    /\ ops < MaxOps
    /\ container' = [container EXCEPT
                       !.singletons = << >>,
                       !.scoped = << >>,
                       !.returned = [k \in Keys |-> << >>],
                       !.scope_from = [k \in Keys |-> 0]]
    /\ ops' = ops + 1
    /\ UNCHANGED << last_resolve, registrations, otherThanDI >>

\* Mutant of R_clear_scope: the scoped instances are kept.
R_clear_scope_Kept ==
    /\ ops < MaxOps
    /\ container' = [container EXCEPT
                       !.scope_from = [k \in Keys |-> Len(container.returned[k])]]
    /\ ops' = ops + 1
    /\ UNCHANGED << last_resolve, registrations, otherThanDI >>

\* clear_scope(), lines 275-278.  The scope that starts has none of the
\* returns made so far.
R_clear_scope ==
    /\ ops < MaxOps
    /\ container' = [container EXCEPT
                       !.scoped = << >>,
                       !.scope_from = [k \in Keys |-> Len(container.returned[k])]]
    /\ ops' = ops + 1
    /\ UNCHANGED << last_resolve, registrations, otherThanDI >>

NextDI ==
    \/ R_register_singleton
    \/ R_register_factory
    \/ R_register_instance
    \/ R_resolve
    \/ R_clear_cache
    \/ R_clear_scope

DISpec == InitDI /\ [][NextDI]_vars


(* ------------------------------- claims -------------------------------- *)

\* C1: every FileTask put on the task queue gets exactly one
\* ProcessingResult on the result queue, eventually: none is dropped, none
\* yields two results, and no result is made for a task never queued.
C1_ExactlyOneResult ==
    /\ [](\A f \in Files : /\ result_count[f] <= 1
                           /\ result_count[f] > 0 => f \in enqueued)
    /\ \A f \in Files : (f \in enqueued) ~> (result_count[f] = 1)

\* C1, reached: a run has returned with every file of a full batch queued
\* and answered.
C1_Witness ==
    /\ pc_main = "returned"
    /\ Cardinality(enqueued) = batch_size
    /\ \A f \in enqueued : result_count[f] = 1

\* C2 as stated: the returned statistics satisfy
\* processed = moved + copied + errors.
C2_ProcessedIncludesErrors ==
    pc_main = "returned" =>
        final_stats.processed =
            final_stats.moved + final_stats.copied + final_stats.errors

\* C2, amended: the returned statistics satisfy processed = moved + copied;
\* a failed operation is counted in errors alone.
C2_ProcessedIsMovedPlusCopied ==
    pc_main = "returned" =>
        final_stats.processed = final_stats.moved + final_stats.copied

\* C2, reached: a run has returned with successes and with operations
\* that failed on every attempt.
C2_Witness ==
    /\ pc_main = "returned"
    /\ final_stats.processed > 0
    /\ final_stats.errors > Cardinality(gen_failed)

\* Tasks downstream of the coordinator that are not retired: on the task
\* queue, held by a worker, or as a result not yet drained.
Unretired ==
    Cardinality({i \in 1..Len(task_queue) : task_queue[i] # StopSignal})
    + Cardinality({w \in Workers : wtask[w] # 0})
    + Len(result_queue)

\* C3 as stated: at most batch_size unretired tasks exist downstream of
\* the coordinator, in every state.
C3_BackpressureBound == Unretired <= batch_size

\* Workers inside the filesystem operations of an attempt.
InIo == {w \in Workers : wpc[w] = "io"}

\* C4: at most max_concurrent_io workers are inside the filesystem
\* operations at once, and a worker that waits at the gate holds no permit.
C4_IoGateBound == Cardinality(InIo) <= max_concurrent_io

\* C4, reached: the gate is full, one worker is inside and another waits.
C4_Witness ==
    /\ permits = 0
    /\ \E w1, w2 \in Workers : wpc[w1] = "io" /\ wpc[w2] = "acquire"

\* The run of organize_photos_async is under way.
Running == pc_main \notin {"returned", "raised"}

\* C5 as stated: while the run is under way, a set token stays set.
C5_TokenMonotonic == [][(Running /\ cancel_event) => cancel_event']_vars

\* cancel_processing has been called in this run (it sets the token at once).
CancelCalled == pc_c # "idle"

\* C6: a cancel_processing called while a batch is waited for is followed
\* by the return of organize_photos_async, and at the return every task
\* queued has its result and the returned statistics count every result.
C6_CancelReturns ==
    /\ (CancelCalled /\ cancel_at = "waiting") ~> (pc_main = "returned")
    /\ []((pc_main = "returned" /\ cancel_at = "waiting") =>
            /\ \A f \in enqueued : result_count[f] = 1
            /\ final_stats.processed + final_stats.errors
                 = Cardinality(enqueued) + Cardinality(gen_failed))

\* C6, reached: the run was cancelled in a batch wait with tasks still on
\* the queue, and has returned.
C6_Witness ==
    /\ pc_main = "returned"
    /\ cancel_at = "waiting"
    /\ queued_at_cancel # {}

\* C7 as stated: once the token has been set, the builder starts on no
\* further file (no extraction, no task for it).
C7_BuilderStopsAfterCancel == [][CancelCalled => started' = started]_vars

\* C8 as stated: once cancel_processing has been called, no task is put on
\* the task queue.
C8_NoTaskQueuedAfterCancel == [][CancelCalled => enqueued' = enqueued]_vars

\* C9 as stated: no worker executes a task that was waiting on the task
\* queue when the token was set.
C9_QueuedTasksNotStarted ==
    \A w \in Workers : wtask[w] \notin queued_at_cancel

\* C9, amended: after cancellation the workers also execute the tasks that
\* were waiting on the task queue when the token was set: the stop signals
\* lie behind every queued task, a worker ends only with no task in hand,
\* and at the return of organize_photos_async every task that was waiting
\* has its result.
C9_QueuedTasksDrained ==
    /\ \A i, j \in 1..Len(task_queue) :
         (i < j /\ task_queue[i] = StopSignal) => task_queue[j] = StopSignal
    /\ \A w \in Workers : wpc[w] = "stopped" => wtask[w] = 0
    /\ pc_main = "returned" =>
         \A f \in queued_at_cancel : result_count[f] = 1

\* C9, reached: with the token set, a worker executes a task that was
\* waiting on the queue when it was set.
C9_Witness ==
    /\ cancel_event
    /\ \E w \in Workers : /\ wpc[w] \in {"acquire", "io", "backoff", "dry"}
                          /\ wtask[w] \in queued_at_cancel

\* A result the retry executor returned (not one made of an exception
\* that escaped it).
ByRetryExecutor(r) == ~dry_run /\ r.error # UnexpectedError

\* C10: a result of the retry executor was made by at most retry_attempts
\* attempts: a success by the first attempt that did not raise, a failure
\* by retry_attempts attempts that all raised, with the last one's message.
C10_RetryAttempts ==
    \A i \in 1..Len(result_queue) :
      LET r == result_queue[i]
      IN  /\ r.attempts <= retry_attempts
          /\ ByRetryExecutor(r) =>
            /\ r.success => /\ r.attempts = r.fails + 1
                            /\ r.error = NoError
            /\ ~r.success => /\ r.attempts = retry_attempts
                             /\ r.fails = retry_attempts
                             /\ r.error = ErrorOf(retry_attempts - 1)

\* C10, reached: a success on the last permitted attempt, after
\* retry_attempts - 1 failed ones, and a failure of every attempt.
C10_Witness ==
    /\ ~dry_run
    /\ \E i, j \in 1..Len(result_queue) :
         /\ result_queue[i].success
         /\ result_queue[i].fails = retry_attempts - 1
         /\ ~result_queue[j].success
         /\ result_queue[j].error = ErrorOf(retry_attempts - 1)

\* The sum over i < k of 2^i: the total delay, in units of the base delay,
\* the claim gives for k failed attempts each followed by another attempt.
RECURSIVE SumOfDelays(_)
SumOfDelays(k) == IF k = 0 THEN 0 ELSE SumOfDelays(k - 1) + 2 ^ (k - 1)

\* C11: the retry executor sleeps base_delay * 2^i after the failed attempt
\* i that is not the last permitted one: a success on attempt k + 1 was
\* preceded by a total delay of the sum over i < k of base_delay * 2^i, a
\* failure of every attempt by the delays of all attempts but the last
\* (none after the final one), and only a worker that has a further
\* attempt to make is ever asleep in the backoff.
C11_BackoffSchedule ==
    /\ \A i \in 1..Len(result_queue) :
         LET r == result_queue[i]
         IN  ByRetryExecutor(r) =>
               /\ r.success => r.delay = SumOfDelays(r.fails)
               /\ ~r.success =>
                     /\ r.fails = retry_attempts
                     /\ r.delay = IF r.fails = 0 THEN 0
                                  ELSE SumOfDelays(r.fails - 1)
    /\ \A w \in Workers :
         /\ wpc[w] = "backoff" =>
               /\ wattempt[w] < retry_attempts - 1
               /\ wdelay[w] = SumOfDelays(wattempt[w] + 1)
         /\ wpc[w] \in {"acquire", "io"} =>
               wdelay[w] = SumOfDelays(wattempt[w])

\* C11, reached: a success on the last permitted attempt, after
\* retry_attempts - 1 backoffs, and a failure of every attempt, each with
\* its total delay.
C11_Witness ==
    /\ ~dry_run
    /\ retry_attempts = MaxRetryAttempts
    /\ \E i, j \in 1..Len(result_queue) :
         /\ result_queue[i].success
         /\ result_queue[i].delay = SumOfDelays(retry_attempts - 1)
         /\ result_queue[i].delay > 0
         /\ result_queue[j].error = ErrorOf(retry_attempts - 1)
         /\ result_queue[j].delay = SumOfDelays(retry_attempts - 1)

\* C12: a per-file failure never aborts the run.  Every failed result (an
\* operation that failed on every attempt, or an exception inside task
\* processing) and every failed task generation is one increment of the
\* errors counter; no worker ends before the pool is told to stop;
\* organize_photos_async raises only out of validation; and once an error
\* is counted the run still returns, with statistics that count it.
C12_FailuresDoNotAbort ==
    /\ [](stats.errors = fail_count + Cardinality(gen_failed))
    /\ [](\A w \in Workers : wpc[w] = "stopped" => ~is_processing)
    /\ []((pc_main = "raised") => (stats.errors = 0 /\ started = {}))
    /\ (stats.errors > 0) ~>
           (pc_main = "returned" /\ final_stats.errors = stats.errors)

\* C12, reached: a run has returned after a worker made a failed result of
\* one task and went on to make a result of a later one.
C12_Witness ==
    /\ pc_main = "returned"
    /\ final_stats.errors > 0
    /\ \E i, j \in 1..Len(result_queue) :
         /\ i < j
         /\ ~result_queue[i].success
         /\ result_queue[i].error = UnexpectedError
         /\ result_queue[j].success

\* C13: when the source path is missing or is not a directory,
\* organize_photos_async raises with no worker started, no file handed to
\* the date extractor, no task made or queued, and every statistics counter
\* at the value it had.
C13_InvalidSourceIsFatal ==
    pc_main = "raised" =>
        /\ workers = {}
        /\ \A w \in Workers : wpc[w] = "none"
        /\ ~is_processing
        /\ started = {}
        /\ generated = << >>
        /\ enqueued = {}
        /\ task_queue = << >>
        /\ stats = ZeroStats

\* C13, reached: validation has failed and organize_photos_async has raised.
C13_Witness ==
    /\ pc_main = "raised"
    /\ pool_shutdown

\* A worker ends in this step.
Stops(w) == wpc[w] # "stopped" /\ wpc'[w] = "stopped"

\* C14: when organize_photos_async returns after the stream is exhausted or
\* the run is cancelled, every one of the max_workers workers has stopped,
\* no task is left on the queue or in a worker's hands, and every queued
\* task has its result; and a worker stops only with no task in hand and
\* no FileTask waiting on the queue.
C14_PoolDrainedOnReturn ==
    /\ []((pc_main = "returned" /\ file_count > 0) =>
            /\ \A w \in Workers : wpc[w] = "stopped" /\ wtask[w] = 0
            /\ TasksIn(task_queue) = {}
            /\ \A f \in enqueued : result_count[f] = 1)
    /\ [][\A w \in Workers :
            Stops(w) => (wtask'[w] = 0 /\ TasksIn(task_queue') = {})]_vars

\* C14, reached: a run of two batches has returned with its workers
\* stopped, without cancellation.
C14_Witness ==
    /\ pc_main = "returned"
    /\ ~CancelCalled
    /\ Len(yielded) > 1
    /\ \A w \in Workers : wpc[w] = "stopped"

RECURSIVE Concat(_)
\* The concatenation of a sequence of sequences.
Concat(ss) == IF ss = << >> THEN << >> ELSE Head(ss) \o Concat(Tail(ss))

\* C15: the batches _batch_generator has yielded, followed by the batch it
\* is filling, are the tasks it has taken from the task generator, in
\* order; every yielded batch has between 1 and batch_size tasks, every
\* one but the last exactly batch_size; and nothing is left unyielded when
\* the generator has ended.
C15_BatchesPartitionTasks ==
    /\ Concat(yielded) \o batch = generated
    /\ \A i \in 1..Len(yielded) :
         /\ Len(yielded[i]) >= 1
         /\ Len(yielded[i]) <= batch_size
         /\ i < Len(yielded) => Len(yielded[i]) = batch_size
    /\ Len(batch) < batch_size
    /\ pc_main \in {"stopping", "returned"} => batch = << >>

\* C15, reached: the generator has ended after a full batch and a last,
\* smaller one.
C15_Witness ==
    /\ pc_main = "returned"
    /\ Len(yielded) = 2
    /\ Len(yielded[1]) = batch_size
    /\ Len(yielded[2]) < batch_size
    /\ Len(generated) = batch_size + Len(yielded[2])

\* The coordinator has left the wait for a batch in this step, with fewer
\* results than the batch has tasks.
LeavesWaitEarly ==
    /\ pc_main = "waiting"
    /\ pc_main' # "waiting"
    /\ completed' < wait_n

\* C16: a wait for a batch ends: it goes on only while fewer results than
\* the batch has tasks have been taken, it is always followed by a state
\* outside it, and when it is left early (batch timeout, or poll timeout
\* with the token set) the coordinator goes on to the next file of the
\* next batch, or to stopping the workers when the token is set or no file
\* is left.
C16_BatchWaitEnds ==
    /\ (pc_main = "waiting") ~> (pc_main # "waiting")
    /\ [](pc_main = "waiting" => completed < wait_n)
    /\ [][LeavesWaitEarly =>
            IF idx < file_count /\ ~cancel_event
            THEN idx' = idx + 1 /\ pc_main' \in {"extracting", "resolving"}
            ELSE pc_main' \in {"stopping", "returned"}]_vars

\* C16, reached: after a batch timeout with partial completion, with the
\* token not set, the coordinator is waiting for the next batch.
C16_Witness ==
    /\ pc_main = "waiting"
    /\ ~cancel_event
    /\ Len(yielded) = 2
    /\ Cardinality({f \in Files : result_count[f] > 0}) < batch_size

\* A sequence of files is in the order of the sorted discovery list.
InDiscoveryOrder(q) == \A i, j \in 1..Len(q) : i < j => q[i] < q[j]

\* C17: the tasks are put on the task queue in the order of the sorted
\* discovery list, across batches: the submissions are an initial part of
\* the generated tasks, which are in discovery order and hold no file whose
\* task generation failed, and the tasks waiting on the queue are in that
\* order too.
C17_SubmissionOrder ==
    /\ InDiscoveryOrder(generated)
    /\ \A i \in 1..Len(generated) : generated[i] \notin gen_failed
    /\ Len(submitted) <= Len(generated)
    /\ submitted = SubSeq(generated, 1, Len(submitted))
    /\ InDiscoveryOrder(SelectSeq(task_queue, LAMBDA t : t # StopSignal))

\* C17, reached: the tasks of two batches were submitted, and results lie
\* on the result queue in another order than their tasks were submitted in.
C17_Witness ==
    /\ Len(submitted) > batch_size
    /\ \E i, j \in 1..Len(result_queue) :
         i < j /\ result_queue[i].task > result_queue[j].task

\* The rename loop of _handle_duplicate_async has a counter to find for
\* every file of the run.
RenameRoom ==
    \A i \in 1..Len(file_names) :
      \E c \in 1..AsyncRenameCap :
        WithCounter(file_names[i], c) \notin target_folder

\* C18 as stated: under the rename policy no two FileTasks of a run carry
\* the same target_path, and no task's target names a file that exists when
\* a worker writes it.
C18_CollisionFreeTargets ==
    (organizer = "async" /\ duplicate_handling = "rename" /\ RenameRoom) =>
        /\ \A i, j \in 1..Len(resolved) :
             i < j => resolved[i].target # resolved[j].target
        /\ \A k \in 1..Len(executed) : ~executed[k].existed

\* A resolver returns a target in this step.
Resolving == Len(resolved') = Len(resolved) + 1

\* The candidate and the target of that step.
Newest == resolved'[Len(resolved')]

\* The last counter the resolver at work tries.
RenameCap == IF organizer = "async" THEN AsyncRenameCap ELSE SyncRenameCap

\* The counters 1..cap whose name stem_NNN is unused in the folder.
UnusedCounters(folder, stem, cap) ==
    {c \in 1..cap : WithCounter(stem, c) \notin folder}

\* The candidate when it is unused, else stem_NNN for the smallest unused N.
SmallestUnused(folder, cand, stem, cap) ==
    IF cand \notin folder
    THEN cand
    ELSE LET free == UnusedCounters(folder, stem, cap)
         IN  WithCounter(stem, CHOOSE c \in free : \A d \in free : c <= d)

RenameBase(cand) == IF organizer = "sync" THEN StripCounter(cand) ELSE cand

C20_SuffixStripped ==
    duplicate_handling = "rename" =>
        \A i \in 1..Len(resolved) :
          LET t == resolved[i]
          IN  t.target \notin {t.cand, NoTarget} =>
                \E c \in 1..AsyncRenameCap :
                  t.target = WithCounter(StripCounter(t.cand), c)

\* The task builder's batch and the task queue are as they were before the
\* step, and so is the target folder.
NothingProduced ==
    /\ pending' = pending
    /\ queued' = queued
    /\ target_folder' = target_folder
    /\ executed' = executed

\* C21 as stated: under the skip policy the resolution of a file whose
\* candidate target exists returns no target: no FileTask is produced or
\* enqueued for it and the existing target is not written (with no task
\* there is no result to count in processed); for both resolvers.
C21_SkipProducesNoTask ==
    [][(/\ Resolving
        /\ duplicate_handling = "skip"
        /\ Newest.cand \in target_folder)
       => (Newest.target = NoTarget /\ NothingProduced)]_vars

\* C22 as stated: under the rename policy the resolution of a file whose
\* candidate exists and whose suffixed names up to the cap are all in use
\* returns no target: no FileTask is produced for it and the existing
\* candidate is not written; for both resolvers.
C22_RenameCapFallsBackToSkip ==
    [][(/\ Resolving
        /\ duplicate_handling = "rename"
        /\ Newest.cand \in target_folder
        /\ UnusedCounters(target_folder, RenameBase(Newest.cand),
                          RenameCap) = {})
       => (Newest.target = NoTarget /\ NothingProduced)]_vars

\* The shapes YYYY, YYYY-MM, YYYY-MM-DD, MM and MM-DD, "9" for a digit.
OrganizedShapes ==
    { << "9", "9", "9", "9" >>,
      << "9", "9", "9", "9", "-", "9", "9" >>,
      << "9", "9", "9", "9", "-", "9", "9", "-", "9", "9" >>,
      << "9", "9" >>,
      << "9", "9", "-", "9", "9" >> }

\* The name of a directory matches an organized pattern.
LooksOrganized(dir_name) ==
    [i \in 1..Len(dir_name) |->
        IF dir_name[i] \in {"0", "1", "2", "4", "5"} THEN "9"
        ELSE dir_name[i]] \in OrganizedShapes

\* The file at path is reached from the root through directories that
\* open, none of them below the root looking organized.
ReachedFromRoot(path) ==
    \A k \in 0..(Len(path) - 1) :
      /\ \E e \in tree : /\ e.path = SubSeq(path, 1, k)
                         /\ e.kind = "dir"
                         /\ e.readable
      /\ k >= 1 => ~LooksOrganized(path[k])

\* The list holds the paths of the set once each, in ascending order.
AscendingListOf(list, paths) ==
    /\ Range(list) = paths
    /\ Len(list) = Cardinality(paths)
    /\ \A i, j \in 1..Len(list) : i < j => PathLess(list[i], list[j])

\* C23 as stated: discovery returns, in ascending order, exactly the files
\* whose lower-cased extension is in the configured allow-list and that are
\* reached from the root without entering a subdirectory whose name matches
\* an organized pattern; a directory that fails to open is skipped, and
\* the list is empty when nothing matches.
C23_DiscoveryAllowList ==
    pc_scan = "returned" =>
        AscendingListOf(discovered,
            {e.path : e \in {f \in tree :
                /\ f.kind = "file"
                /\ Lower(Suffix(Last(f.path))) \in supported_extensions
                /\ ReachedFromRoot(f.path)}})

\* C23, amended: the same, the extension of a file and the entries of the
\* allow-list both being lower-cased before they are compared.
C23_DiscoveryCaseInsensitive ==
    pc_scan = "returned" =>
        AscendingListOf(discovered,
            {e.path : e \in {f \in tree :
                /\ f.kind = "file"
                /\ \E ext \in supported_extensions :
                     Lower(Suffix(Last(f.path))) = Lower(ext)
                /\ ReachedFromRoot(f.path)}})

\* C23, reached: the first scan has returned two files or more, one of
\* them with an upper-case extension, and has left out a .jpg file below a
\* directory named like a date and one below a directory that did not open.
C23_Witness ==
    /\ pc_scan = "returned"
    /\ run = 1
    /\ Len(discovered) >= 2
    /\ \E p \in Range(discovered) : Suffix(Last(p)) # Lower(Suffix(Last(p)))
    /\ \E f \in tree :
         /\ f.kind = "file"
         /\ Lower(Suffix(Last(f.path))) = << ".", "j", "p", "g" >>
         /\ Len(f.path) > 1
         /\ f.path \notin Range(discovered)

\* C24 as stated: after a first run in move mode onto the source
\* directory, with every operation succeeding, the second run discovers
\* no file.
C24_SecondRunDiscoversNothing ==
    (run = 2 /\ pc_scan = "returned") => discovered = << >>

\* Every discovered file has one result, a success, and no task generation
\* raised.
EveryOperationSucceeded ==
    /\ gen_failed = {}
    /\ fail_count = 0
    /\ \A f \in 1..file_count : result_count[f] = 1

\* C25 as stated: a copy-mode run in which every operation succeeds
\* returns processed = copied = the number of discovered files, errors = 0,
\* and no_date = the number of files no date could be extracted from, which
\* were sent to the no-date folder.
C25_CopyRunStatistics ==
    (pc_main = "returned" /\ ~move_files /\ EveryOperationSucceeded) =>
        /\ final_stats.processed = file_count
        /\ final_stats.copied = file_count
        /\ final_stats.errors = 0
        /\ final_stats.no_date = Cardinality(unknown_date)

\* The number of ProcessingResults made for the files up to f.
RECURSIVE ResultsUpTo(_)
ResultsUpTo(f) == IF f = 0 THEN 0 ELSE result_count[f] + ResultsUpTo(f - 1)

\* C26: whatever the order in which the workers complete, the counters are
\* determined by the outcomes alone: processed is the number of successful
\* results (all of them moved, or all of them copied), and the errors that
\* do not come from task generation are the number of failed results; the
\* statistics returned are the counters at that moment.
C26_CountersFollowOutcomes ==
    /\ stats.processed = ResultsUpTo(NumFiles) - fail_count
    /\ stats.errors = fail_count + Cardinality(gen_failed)
    /\ stats.moved = (IF move_files THEN stats.processed ELSE 0)
    /\ stats.copied = (IF move_files THEN 0 ELSE stats.processed)
    /\ pc_main = "returned" => final_stats = stats

\* C26, reached: a run has returned with successes and failures counted,
\* and with results of two tasks made in the reverse of their submission
\* order.
C26_Witness ==
    /\ pc_main = "returned"
    /\ final_stats.processed >= 1
    /\ fail_count >= 1
    /\ \E i, j \in 1..Len(result_queue) :
         i < j /\ result_queue[i].task > result_queue[j].task


\* C27: a statistics snapshot (the dict of get_dict, and the dict
\* _get_final_stats returns after adding its keys) is a point-in-time copy:
\* when it is made it carries the counters of that moment and the
\* collector's stats object is left as it was; the increments, sets, logged
\* operations and resets that follow do not change it; and a change of the
\* snapshot by its holder does not change the collector's stats object.
C27_SnapshotIsACopy ==
    [][ /\ last_call'.op = "get_dict" =>
              /\ \A a \in Counters :
                    heap'[snapshot_ref'][a] = heap[stats_ref][a]
              /\ stats_ref' = stats_ref
              /\ heap'[stats_ref] = heap[stats_ref]
        /\ ( /\ snapshot_ref # 0
             /\ last_call'.op \in {"increment", "set_counter",
                                   "log_operation", "reset"} ) =>
              /\ snapshot_ref' = snapshot_ref
              /\ heap'[snapshot_ref] = heap[snapshot_ref]
        /\ last_call'.op = "change" =>
              /\ stats_ref' = stats_ref
              /\ heap'[stats_ref] = heap[stats_ref]
      ]_vars

\* C27 witness: a snapshot was taken, a counter was incremented after it,
\* and the snapshot still carries the counters of the moment it was taken
\* while the collector has moved on.
C27_Witness ==
    /\ calls > 0
    /\ snapshot_ref # 0
    /\ last_call.op = "increment"
    /\ last_call.name \in Counters
    /\ \A a \in Counters : heap[snapshot_ref][a] = taken[a]
    /\ heap[stats_ref][last_call.name] # taken[last_call.name]

\* C28: increment(name, amount) raises the named counter by exactly amount
\* and leaves every other counter unchanged, set_counter(name, value) sets
\* only the named counter, and for a name that is not a known counter both
\* leave all the counters unchanged and raise no error.
C28_IncrementAndSetFrame ==
    ( /\ calls > 0
      /\ last_call.op \in {"increment", "set_counter"} ) =>
        LET before == last_call.before
            after == heap[stats_ref]
            name == last_call.name
        IN  /\ ~last_call.raised
            /\ \A a \in Counters :
                  after[a] =
                      IF a # name THEN before[a]
                      ELSE IF last_call.op = "increment"
                           THEN before[a] + last_call.amount
                           ELSE last_call.amount

\* The failed calls of a log, in order: the k-th failed operation is the
\* k-th entry of the log whose success is false.
FailedCalls(log, F) ==
    LET failed == {i \in DOMAIN log : ~log[i].success}
    IN  /\ Len(F) = Cardinality(failed)
        /\ \A i \in failed :
              F[Cardinality({j \in failed : j <= i})] = log[i]

\* C29: log_operation records the call as the last entry of the operation
\* log; a successful operation adds 1 to processed and 1 to the counter of
\* its type (moved, copied, mpg_merged), a failed one adds 1 to errors only;
\* as long as only log_operation was called on a fresh collector the log
\* length is processed + errors; and get_failed_operations returns exactly
\* the failed calls, in order, with their error messages.
C29_LogOperationCounts ==
    calls > 0 =>
      LET before == last_call.before
          after == heap[stats_ref]
          success == last_call.amount = 1
          counted == IF ~success THEN {"errors"}
                     ELSE {"processed"} \cup
                          ( IF last_call.name = "move" THEN {"moved"}
                            ELSE IF last_call.name = "copy" THEN {"copied"}
                            ELSE IF last_call.name = "merge"
                                 THEN {"mpg_merged"}
                                 ELSE {} )
      IN  /\ last_call.op = "log_operation" =>
                /\ operation_log # << >>
                /\ Last(operation_log) =
                      [type |-> last_call.name, success |-> success,
                       error |-> last_call.error]
                /\ \A a \in Counters :
                      after[a] = before[a] + (IF a \in counted THEN 1 ELSE 0)
          /\ only_logged =>
                Len(operation_log) = after.processed + after.errors
          /\ FailedCalls(operation_log, get_failed_operations(operation_log))

\* C29 witness: three operations logged on a fresh collector, a successful
\* move and a failed one among them.
C29_Witness ==
    /\ calls > 0
    /\ only_logged
    /\ last_call.op = "log_operation"
    /\ Len(operation_log) = 3
    /\ \E i \in DOMAIN operation_log :
          operation_log[i].success /\ operation_log[i].type = "move"
    /\ Len(get_failed_operations(operation_log)) = 1
    /\ get_failed_operations(operation_log)[1].error = "Test error"


\* C30: for a key registered as singleton, all the resolves of the key made
\* since (from outside or for a dependency, with any resolves of other keys
\* in between, and no clear_cache) returned one and the same instance; for
\* a key registered as transient, the resolves of the key returned
\* instances that differ from one another, and each was built by that
\* resolve (it did not exist before it).
C30_SingletonSameTransientNew ==
    ops > 0 =>
      /\ \A k \in DOMAIN container.lifetimes :
            LET ids == container.returned[k]
            IN  /\ container.lifetimes[k] = "singleton" =>
                      \A i, j \in DOMAIN ids : ids[i] = ids[j]
                /\ container.lifetimes[k] = "transient" =>
                      \A i, j \in DOMAIN ids : i # j => ids[i] # ids[j]
      /\ ( /\ last_resolve.key \in DOMAIN last_resolve.before.lifetimes
           /\ last_resolve.before.lifetimes[last_resolve.key] = "transient"
           /\ last_resolve.raised = "" ) =>
              /\ last_resolve.instance.built
              /\ last_resolve.instance.id > last_resolve.before.created

\* C30 witness: a singleton built by the container was returned by three
\* resolves, two of them for the dependency of a transient service that
\* was resolved twice and from outside once more.
C30_Witness ==
    /\ ops > 0
    /\ \E s, t \in DOMAIN container.lifetimes :
          /\ s # t
          /\ container.lifetimes[s] = "singleton"
          /\ s \in DOMAIN container.factories
          /\ container.lifetimes[t] = "transient"
          /\ container.factories[t].dep = s
          /\ Len(container.returned[s]) = 3
          /\ Len(container.returned[t]) = 2
          /\ last_resolve.key = s
          /\ last_resolve.raised = ""

\* C31: for a key registered as scoped, the resolves of the key made since
\* the last clear_scope all returned one and the same instance, and that
\* instance differs from every instance the key's resolves returned before
\* that clear_scope.
C31_ScopedSameWithinScope ==
    ops > 0 =>
      \A k \in DOMAIN container.lifetimes :
         container.lifetimes[k] = "scoped" =>
            LET ids == container.returned[k]
                n == container.scope_from[k]
            IN  \A j \in DOMAIN ids :
                   j > n =>
                      /\ \A i \in DOMAIN ids : i > n => ids[i] = ids[j]
                      /\ \A i \in DOMAIN ids : i <= n => ids[i] # ids[j]

\* C31 witness: a scoped key was resolved twice, the scope was cleared, and
\* the key was resolved twice again.
C31_Witness ==
    /\ ops > 0
    /\ \E k \in DOMAIN container.lifetimes :
          /\ container.lifetimes[k] = "scoped"
          /\ container.scope_from[k] = 2
          /\ Len(container.returned[k]) = 4
          /\ last_resolve.key = k
          /\ last_resolve.raised = ""

\* The key whose resolve the construction of key asks for in container c
\* ("": none): key has to be built (it is registered, not cached, and has
\* a factory) and its class or function has a dependency.
Asks(c, key) ==
    IF /\ key \in DOMAIN c.lifetimes
       /\ key \in DOMAIN c.factories
       /\ ~(c.lifetimes[key] = "singleton" /\ key \in DOMAIN c.singletons)
       /\ ~(c.lifetimes[key] = "scoped" /\ key \in DOMAIN c.scoped)
    THEN c.factories[key].dep
    ELSE ""

RECURSIVE Loops(_, _, _)
\* The construction of key, begun while the keys of seen are being built,
\* comes to resolve a key that is being built.
Loops(c, key, seen) ==
    LET asked == Asks(c, key)
    IN  /\ asked # ""
        /\ \/ asked \in seen \cup {key}
           \/ Loops(c, asked, seen \cup {key})

\* The construction of key transitively resolves a key again.
Circular(c, key) == Loops(c, key, {})

\* C32: a resolve of a key whose construction transitively resolves the
\* same key again raises ValueError 'Circular dependency detected', and
\* after every resolve, returned or raised, the set of keys being resolved
\* is empty, so that a later resolve of a key that is not circular does not
\* raise that error.
C32_CircularRaisesValueError ==
    ops > 0 =>
      /\ container.resolving = {}
      /\ last_resolve.key # "" =>
            ( Circular(last_resolve.before, last_resolve.key)
              <=> last_resolve.raised =
                      "ValueError: Circular dependency detected" )

\* The part of C32 that holds: the set of keys being resolved is empty
\* after every call, and no resolve of a key that is not circular raises
\* the circular-dependency error.
C32_ResolvingEmptied ==
    ops > 0 =>
      /\ container.resolving = {}
      /\ ( /\ last_resolve.key # ""
           /\ last_resolve.raised = "ValueError: Circular dependency detected" )
            => Circular(last_resolve.before, last_resolve.key)

\* C33: when the most recent registration of a key is register_singleton
\* with a factory function that constructs its product (as
\* DefaultServiceProvider._register_core_services registers 'statistics'),
\* a resolve of the key returns an instance built by that function and not
\* the function itself, and all the resolves return the same instance.
C33_SingletonFactoryProduct ==
    ops > 0 =>
      /\ ( /\ last_resolve.key \in DOMAIN last_resolve.before.lifetimes
           /\ last_resolve.before.lifetimes[last_resolve.key] = "singleton"
           /\ last_resolve.before.latest[last_resolve.key].by =
                 Implementation("function", "", FALSE) ) =>
              /\ last_resolve.raised = ""
              /\ last_resolve.instance.built
              /\ last_resolve.instance.by =
                    Implementation("function", "", FALSE)
      /\ \A k \in DOMAIN container.lifetimes :
            ( /\ container.lifetimes[k] = "singleton"
              /\ container.latest[k].by =
                    Implementation("function", "", FALSE) ) =>
               \A i, j \in DOMAIN container.returned[k] :
                  container.returned[k][i] = container.returned[k][j]

\* C40: whatever registrations, resolves and clears were made, a resolve of
\* a key for which is_registered is true does not fail for a missing
\* factory (KeyError), and the instance it returns comes from the most
\* recent registration of the key: it is the object that registration
\* handed in, or it was built by the class or function that registration
\* named.
C40_RegisteredKeysResolve ==
    ( /\ ops > 0
      /\ last_resolve.key # ""
      /\ is_registered(last_resolve.before, last_resolve.key) ) =>
          LET registration == last_resolve.before.latest[last_resolve.key]
          IN  /\ last_resolve.raised # "KeyError"
              /\ last_resolve.raised = "" =>
                    IF registration.id # 0
                    THEN last_resolve.instance.id = registration.id
                    ELSE /\ last_resolve.instance.built
                         /\ last_resolve.instance.by = registration.by

\* The batch _batch_generator yielded as the i-th has had its completion
\* wait, and the wait has returned: its tasks were put on the task queue
\* and the coordinator is no longer in that wait.
WaitEnded(i) ==
    /\ \A j \in DOMAIN yielded[i] : yielded[i][j] \in enqueued
    /\ i < Len(yielded) \/ pc_main # "waiting"

RECURSIVE TasksOfEndedWaits(_)
\* The number of tasks in the first i batches whose wait has ended.
TasksOfEndedWaits(i) ==
    IF i = 0 THEN 0
    ELSE TasksOfEndedWaits(i - 1) +
         (IF WaitEnded(i) THEN Len(yielded[i]) ELSE 0)

\* C34 as stated: the number of files the builder has begun extraction for
\* exceeds the number of tasks in batches whose wait has ended by at most
\* batch_size.
C34_ExtractionBoundedByBatch ==
    Cardinality(started) - TasksOfEndedWaits(Len(yielded)) <= batch_size

\* C34, amended: not counting the files whose task generation raised
\* (they are in no batch), the number of files the builder has begun
\* extraction for exceeds the number of tasks in batches whose wait has
\* ended by at most batch_size; and while the coordinator waits for a batch
\* no file of a later batch has been begun: every file begun is in a batch
\* already yielded, or its task generation raised.
C34_ExtractionBoundedByTasks ==
    /\ Cardinality(started \ gen_failed)
          - TasksOfEndedWaits(Len(yielded)) <= batch_size
    /\ pc_main = "waiting" =>
          \A f \in started :
             \/ f \in gen_failed
             \/ \E i \in DOMAIN yielded : f \in Range(yielded[i])

\* C34 witness: the coordinator waits for a full batch that was built
\* after the task generation of an earlier file had raised.
C34_Witness ==
    /\ pc_main = "waiting"
    /\ gen_failed # {}
    /\ Len(Last(yielded)) = batch_size
    /\ Cardinality(started) = batch_size + 1

\* The builder is done with the extraction of file f.
Extracted(f) ==
    f \in started /\ (f < idx \/ pc_main # "extracting")

\* The builder is done with file f: its task was yielded or its generation
\* raised.
Built(f) ==
    f \in started /\ (f < idx \/ pc_main \notin {"extracting", "resolving"})

\* C35: a file the extractor gives no date for (it raised, or returned
\* None) is given the no-date folder as its target directory; the builder
\* goes on from the extraction to the duplicate check of that file and
\* yields a task for it unless that check raises; and no error is counted
\* for the missing date: errors counts the task generations that raised and
\* the failed results, nothing else.
C35_ExtractionFailureRecoverable ==
    /\ [](\A f \in dateless :
             /\ Extracted(f) => f \in unknown_date
             /\ Built(f) => (f \in Range(generated) \/ f \in gen_failed)
             /\ (Built(f) /\ f \in gen_failed) => f \notin Range(generated))
    /\ [](stats.errors = Cardinality(gen_failed) + fail_count)
    /\ [][(pc_main = "extracting" /\ idx \in dateless)
             => pc_main' \in {"extracting", "resolving"}]_vars

\* C35 witness: a task was yielded for a file without a date, no error is
\* counted, and the builder has gone on to the next file.
C35_Witness ==
    \E f \in dateless :
       /\ f \in unknown_date
       /\ f \in Range(generated)
       /\ f + 1 \in started
       /\ stats.errors = 0

\* C36: in every state the free permits of the I/O gate plus the workers
\* inside the filesystem operations of an attempt make max_concurrent_io:
\* every attempt gives its permit back however it ends, and a worker that
\* sleeps in the retry backoff, waits at the gate, waits on the task queue,
\* is in a dry run or has stopped holds none.
C36_PermitsBalance ==
    /\ permits + Cardinality(InIo) = max_concurrent_io
    /\ permits >= 0

\* C36 witness: a worker sleeps in the backoff after a failed attempt
\* while the other is inside the gate with the only permit.
C36_Witness ==
    /\ permits = 0
    /\ \E w1, w2 \in Workers :
          /\ wpc[w1] = "backoff"
          /\ wattempt[w1] = 0
          /\ wpc[w2] = "io"

\* C37: every result _wait_for_batch_completion takes from the result
\* queue and counts was made for a task of the batch it is waiting for
\* (the batch yielded last).
C37_CountedResultsAreOfTheBatch ==
    [][ ( /\ pc_main = "waiting"
          /\ result_queue # << >>
          /\ completed' = completed + 1 )
        => Head(result_queue).task \in Range(Last(yielded)) ]_vars

\* C38: when organize_photos_async has returned, the task queue holds no
\* stop signal and no task, and the result queue holds no result.
C38_QueuesEmptyAtReturn ==
    pc_main = "returned" => (task_queue = << >> /\ result_queue = << >>)

\* C39: no file is begun by the builder once the thread pool has been shut
\* down, so that every file routed to the no-date folder is one the
\* extractor gives no date for.
C39_NoSubmissionAfterShutdown ==
    /\ [](\A f \in unknown_date : f \in dateless)
    /\ [][started' # started => ~pool_shutdown]_vars
=============================================================================
